---- MODULE Spec2Model ----
(***************************************************************************)
(* Skill-exchange marketplace: the data store (profiles, skill_requests,   *)
(* their constraints and row-level policies) and the pages that read and   *)
(* write it (create profile, profile by id, dashboard, own profile).  Every *)
(* browser tab is a process; every await of a data-store call is a step.   *)
(***************************************************************************)
EXTENDS Integers, Sequences, FiniteSets, TLC

VARIABLES profiles, requests, faults, user, create, view, dash, own, browse

vars == <<profiles, requests, faults, user, create, view, dash, own, browse>>

----------------------------------------------------------------------------
(* Principals and tabs *)

Users == {"u1", "u2", "u3"}
NoUser == "signed-out"

CreateTabs == {"c1", "c2", "c3"}
ViewTabs == {"v1"}
DashTabs == {"d1", "d2"}
OwnTabs == {"p1", "p2"}
Tabs == CreateTabs \cup ViewTabs \cup DashTabs \cup OwnTabs

MaxRequests == 2

(* data-store calls that may still fail in transit *)
MaxFaults == 1

----------------------------------------------------------------------------
(* Data-store results *)

NoError == ""
PGRST116 == "PGRST116"
UniqueViolation == "23505"
ForeignKeyViolation == "23503"
PolicyViolation == "42501"
FetchFailed == "fetch failed"

Statuses == {"pending", "accepted", "declined", "completed"}

Null == "null"
OrNull(text) == IF text = "" THEN Null ELSE text

Email(u) == <<u, "@mail">>

NewId(rows) == Cardinality(rows) + 1

(* created_at DEFAULT NOW(): the instant of the insert.  updated_at, which  *)
(* every update overwrites, is left out of the rows.                       *)
Now == 1

Failure == [error |-> FetchFailed, data |-> {}]

(* what a call can answer: the store's result or, while faults remain, a   *)
(* failure that left the store alone                                       *)
Outcomes(result, failure) == IF faults > 0 THEN {result, failure} ELSE {result}

Spend(res) == faults' = IF res.error = FetchFailed THEN faults - 1 ELSE faults

single(rows) ==
  IF Cardinality(rows) = 1
    THEN [error |-> NoError, data |-> rows]
    ELSE [error |-> PGRST116, data |-> {}]

----------------------------------------------------------------------------
(* profiles: constraints, policies, queries *)

ProfilesSelectPolicy(uid, p) == p.is_public \/ uid = p.user_id
ProfilesInsertPolicy(uid, p) == uid = p.user_id
ProfilesUpdatePolicy(uid, p) == uid = p.user_id

(* the table without UNIQUE(user_id) *)
ProfilesNoUniqueUserId(rows, p) == TRUE

ProfilesUniqueUserId(rows, p) == \A q \in rows : q.user_id # p.user_id

VisibleProfiles(uid) == {p \in profiles : ProfilesSelectPolicy(uid, p)}

SelectProfileByUserId(uid) ==
  single({p \in VisibleProfiles(uid) : p.user_id = uid})

(* the lookup answering "forbidden" for a row the caller may not see *)
SelectPublicProfileByIdForbidden(uid, id) ==
  IF \E p \in profiles : p.id = id /\ ~(p.is_public /\ ProfilesSelectPolicy(uid, p))
    THEN [error |-> PolicyViolation, data |-> {}]
    ELSE single({p \in profiles : p.id = id})

(* the lookup without .eq("is_public", true) *)
SelectProfileById(uid, id) ==
  single({p \in VisibleProfiles(uid) : p.id = id})

SelectPublicProfileById(uid, id) ==
  single({p \in VisibleProfiles(uid) : p.id = id /\ p.is_public = TRUE})

(* upsert resolving conflicts on user_id: the existing row is overwritten *)
UpsertProfileOnUserId(uid, payload) ==
  LET row == [id |-> NewId(profiles), created_at |-> Now] @@ payload
      old == {p \in profiles : p.user_id = payload.user_id} IN
  IF ~ProfilesInsertPolicy(uid, row)
    THEN [error |-> PolicyViolation, profiles |-> profiles]
  ELSE IF old # {}
    THEN [error |-> NoError,
          profiles |-> (profiles \ old) \cup {[id |-> p.id, created_at |-> p.created_at] @@ payload : p \in old}]
  ELSE [error |-> NoError, profiles |-> profiles \cup {row}]

(* upsert without onConflict: INSERT ... ON CONFLICT (id) DO UPDATE; the   *)
(* payload carries no id, so the row gets a fresh one and only the other   *)
(* constraints can reject it.                                              *)
UpsertProfile(uid, payload) ==
  LET row == [id |-> NewId(profiles), created_at |-> Now] @@ payload IN
  IF ~ProfilesInsertPolicy(uid, row)
    THEN [error |-> PolicyViolation, profiles |-> profiles]
  ELSE IF ~ProfilesUniqueUserId(profiles, row)
    THEN [error |-> UniqueViolation, profiles |-> profiles]
  ELSE [error |-> NoError, profiles |-> profiles \cup {row}]

UpsertFailure == [error |-> FetchFailed, profiles |-> profiles]

(* the update without the user_id filter and without the update policy *)
UpdateAnyProfile(uid, userId, patch) ==
  [error |-> NoError, profiles |-> {patch @@ p : p \in profiles}]

(* the update writing the name column only *)
UpdateProfileNameOnly(uid, userId, patch) ==
  LET hit(p) == p.user_id = userId /\ ProfilesUpdatePolicy(uid, p) IN
  [error |-> NoError,
   profiles |-> {IF hit(p) THEN [p EXCEPT !.name = patch.name] ELSE p : p \in profiles}]

(* the update replacing the row by a new one, whose created_at is taken    *)
(* from the clock again                                                    *)
UpdateProfileAsNewRow(uid, userId, patch) ==
  LET hit(p) == p.user_id = userId /\ ProfilesUpdatePolicy(uid, p) IN
  [error |-> NoError,
   profiles |-> {IF hit(p) THEN patch @@ [created_at |-> Now + 1] @@ p ELSE p :
                   p \in profiles}]

(* update({...}).eq("user_id", userId): rows the update policy hides are   *)
(* not matched, and an update that matches no row is no error.             *)
UpdateProfile(uid, userId, patch) ==
  LET hit(p) == p.user_id = userId /\ ProfilesUpdatePolicy(uid, p) IN
  [error |-> NoError,
   profiles |-> {IF hit(p) THEN patch @@ p ELSE p : p \in profiles}]

----------------------------------------------------------------------------
(* Create-profile page *)

(* what the inputs of the form hold at the submit; the two skill lists are *)
(* page state, built by addSkill and removeSkill                            *)
FormData ==
  [name : {"Alice"}, location : {""}, bio : {""},
   availability : {"flexible"}, is_public : BOOLEAN]

CreateClosed ==
  [route |-> "closed", loading |-> TRUE, error |-> NoError,
   checking |-> FALSE, submitting |-> {},
   skills_offered |-> <<>>, skills_wanted |-> <<>>]

(* The page after its mount effect ran. *)
CreateMounted(u) ==
  IF u = NoUser
    THEN [CreateClosed EXCEPT !.route = "login"]
    ELSE [CreateClosed EXCEPT !.route = "create", !.checking = TRUE]

checkExistingProfile(t) ==
  /\ create[t].route = "create"
  /\ create[t].checking
  /\ \E res \in Outcomes(SelectProfileByUserId(user[t]), Failure) :
       /\ Spend(res)
       /\ create' = [create EXCEPT ![t] =
            [@ EXCEPT
               !.route = IF res.data # {} THEN "dashboard" ELSE @,
               !.error = IF res.data = {} /\ res.error # NoError /\ res.error # PGRST116
                           THEN res.error ELSE @,
               !.loading = FALSE,
               !.checking = FALSE]]
  /\ UNCHANGED <<profiles, requests, user, view, dash, own, browse>>

CreateFormShown(t) ==
  /\ create[t].route = "create"
  /\ ~(create[t].loading /\ user[t] # NoUser)

handleSubmit(t) ==
  /\ CreateFormShown(t)
  /\ user[t] # NoUser
  /\ \E formData \in FormData :
       create' = [create EXCEPT ![t] =
         [@ EXCEPT
            !.loading = TRUE,
            !.error = NoError,
            !.submitting =
              {[user_id |-> user[t],
                name |-> formData.name,
                email |-> Email(user[t]),
                location |-> OrNull(formData.location),
                bio |-> OrNull(formData.bio),
                skills_offered |-> create[t].skills_offered,
                skills_wanted |-> create[t].skills_wanted,
                availability |-> formData.availability,
                is_public |-> formData.is_public]}]]
  /\ UNCHANGED <<profiles, requests, faults, user, view, dash, own, browse>>

(* the handler clearing loading on success only, without its finally *)
handleSubmitReturnNoFinally(t) ==
  /\ create[t].route = "create"
  /\ \E payload \in create[t].submitting :
     \E res \in Outcomes(UpsertProfile(user[t], payload), UpsertFailure) :
       /\ Spend(res)
       /\ profiles' = res.profiles
       /\ create' = [create EXCEPT ![t] =
            [@ EXCEPT
               !.route = IF res.error = NoError THEN "dashboard" ELSE @,
               !.error = IF res.error # NoError THEN res.error ELSE @,
               !.loading = IF res.error = NoError THEN FALSE ELSE @,
               !.submitting = {}]]
  /\ UNCHANGED <<requests, user, view, dash, own, browse>>

handleSubmitReturn(t) ==
  /\ create[t].route = "create"
  /\ \E payload \in create[t].submitting :
     \E res \in Outcomes(UpsertProfile(user[t], payload), UpsertFailure) :
       /\ Spend(res)
       /\ profiles' = res.profiles
       /\ create' = [create EXCEPT ![t] =
            [@ EXCEPT
               !.route = IF res.error = NoError THEN "dashboard" ELSE @,
               !.error = IF res.error # NoError THEN res.error ELSE @,
               !.loading = FALSE,
               !.submitting = {}]]
  /\ UNCHANGED <<requests, user, view, dash, own, browse>>

----------------------------------------------------------------------------
(* skill_requests: constraints, policies, queries *)

RequestsSelectPolicy(uid, r) == uid = r.from_user_id \/ uid = r.to_user_id
RequestsInsertPolicy(uid, r) == uid = r.from_user_id

(* the update policy letting any principal update any request *)
RequestsUpdateByAnyone(uid, r) == TRUE

RequestsUpdatePolicy(uid, r) == uid = r.to_user_id

(* the table without the foreign keys to profiles(user_id) *)
RequestsNoForeignKeys(r) == TRUE

RequestsForeignKeys(r) ==
  /\ \E p \in profiles : p.user_id = r.from_user_id
  /\ \E p \in profiles : p.user_id = r.to_user_id

RequestsStatusCheck(r) == r.status \in Statuses

InsertRequest(uid, payload) ==
  LET row == [id |-> NewId(requests), created_at |-> Now] @@ payload IN
  IF ~RequestsInsertPolicy(uid, row)
    THEN [error |-> PolicyViolation, requests |-> requests]
  ELSE IF ~RequestsStatusCheck(row)
    THEN [error |-> "23514", requests |-> requests]
  ELSE IF ~RequestsForeignKeys(row)
    THEN [error |-> ForeignKeyViolation, requests |-> requests]
  ELSE [error |-> NoError, requests |-> requests \cup {row}]

(* the update with a concurrency check: a request already decided is left  *)
(* alone and the call reports a conflict                                    *)
UpdateRequestStatusChecked(uid, requestId, status) ==
  LET hit(r) == r.id = requestId /\ RequestsUpdatePolicy(uid, r) IN
  IF \E r \in requests : hit(r) /\ r.status # "pending"
    THEN [error |-> "40001", requests |-> requests]
    ELSE [error |-> NoError,
          requests |-> {IF hit(r) THEN [r EXCEPT !.status = status] ELSE r : r \in requests}]

(* the update writing the message column as well *)
UpdateRequestStatusAndMessage(uid, requestId, status) ==
  LET hit(r) == r.id = requestId /\ RequestsUpdatePolicy(uid, r) IN
  [error |-> NoError,
   requests |-> {IF hit(r) THEN [r EXCEPT !.status = status, !.message = <<>>] ELSE r :
                   r \in requests}]

(* the update matching pending requests only *)
UpdatePendingRequestStatus(uid, requestId, status) ==
  LET hit(r) == r.id = requestId /\ RequestsUpdatePolicy(uid, r) /\ r.status = "pending" IN
  [error |-> NoError,
   requests |-> {IF hit(r) THEN [r EXCEPT !.status = status] ELSE r : r \in requests}]

(* update({status}).eq("id", requestId): rows the update policy hides are  *)
(* not matched, and an update that matches no row is no error.             *)
UpdateRequestStatus(uid, requestId, status) ==
  LET hit(r) == r.id = requestId /\ RequestsUpdatePolicy(uid, r)
      new(r) == IF hit(r) THEN [r EXCEPT !.status = status] ELSE r IN
  IF \E r \in requests : hit(r) /\ ~RequestsStatusCheck(new(r))
    THEN [error |-> "23514", requests |-> requests]
    ELSE [error |-> NoError, requests |-> {new(r) : r \in requests}]

RequestsFailure == [error |-> FetchFailed, requests |-> requests]

SelectIncoming(uid) ==
  {r \in requests : RequestsSelectPolicy(uid, r) /\ r.to_user_id = uid}

SelectSent(uid) ==
  {r \in requests : RequestsSelectPolicy(uid, r) /\ r.from_user_id = uid}

----------------------------------------------------------------------------
(* Text *)

Chars == {" ", "h"}

RECURSIVE TrimStart(_)
TrimStart(s) ==
  IF Len(s) > 0 /\ Head(s) = " " THEN TrimStart(Tail(s)) ELSE s

RECURSIVE TrimEnd(_)
TrimEnd(s) ==
  IF Len(s) > 0 /\ s[Len(s)] = " " THEN TrimEnd(SubSeq(s, 1, Len(s) - 1)) ELSE s

trim(s) == TrimEnd(TrimStart(s))

MaxMessageLen == 1

Messages == UNION {[1..n -> Chars] : n \in 0..MaxMessageLen}

Range(seq) == {seq[i] : i \in 1..Len(seq)}

----------------------------------------------------------------------------
(* Profile-by-id page.  impl "ProfilePage" is the page with fetchProfiles   *)
(* and handleSendRequest; impl "ProfileViewPage" is the page with           *)
(* fetchProfile, fetchUserProfile and sendRequest.  fetching holds the      *)
(* queries in flight, each with the principal it was issued for.            *)

ViewImpls == {"ProfilePage", "ProfileViewPage"}

MaxAuthChanges == 2

ViewClosed ==
  [route |-> "closed", impl |-> "ProfilePage", id |-> 1,
   profile |-> {}, currentUserProfile |-> {},
   loading |-> TRUE, sending |-> FALSE, error |-> NoError, success |-> FALSE,
   skill_offered |-> "", skill_wanted |-> "",
   fetching |-> {}, inserting |-> {}, authChanges |-> 0]

ViewQueries(impl, u) ==
  IF impl = "ProfileViewPage" /\ u # NoUser
    THEN {[q |-> "viewed", uid |-> u], [q |-> "own", uid |-> u]}
    ELSE {[q |-> "viewed", uid |-> u]}

ViewMounted(impl, id, u) ==
  [ViewClosed EXCEPT
     !.route = "view", !.impl = impl, !.id = id, !.fetching = ViewQueries(impl, u)]

(* the page after the query for the viewed profile returned res *)
AfterFetchProfile(v, call, res) ==
  IF v.impl = "ProfilePage"
    THEN IF res.error # NoError
           THEN [v EXCEPT !.error = res.error, !.loading = FALSE,
                          !.fetching = @ \ {call}]
         ELSE IF call.uid # NoUser
           THEN [v EXCEPT !.profile = res.data,
                          !.fetching = (@ \ {call}) \cup {[q |-> "own", uid |-> call.uid]}]
         ELSE [v EXCEPT !.profile = res.data, !.loading = FALSE,
                        !.fetching = @ \ {call}]
    ELSE [v EXCEPT
            !.profile = IF res.error = NoError THEN res.data ELSE @,
            !.error = IF res.error # NoError THEN res.error ELSE @,
            !.loading = FALSE,
            !.fetching = @ \ {call}]

fetchProfile(t) ==
  /\ view[t].route = "view"
  /\ \E call \in view[t].fetching :
       /\ call.q = "viewed"
       /\ \E res \in Outcomes(SelectPublicProfileById(call.uid, view[t].id), Failure) :
            /\ Spend(res)
            /\ view' = [view EXCEPT ![t] = AfterFetchProfile(view[t], call, res)]
  /\ UNCHANGED <<profiles, requests, user, create, dash, own, browse>>

(* the page after the query for the principal's own profile returned res *)
AfterFetchUserProfile(v, call, res) ==
  IF v.impl = "ProfilePage"
    THEN [v EXCEPT
            !.error = IF res.error # NoError /\ res.error # PGRST116
                        THEN res.error ELSE @,
            !.currentUserProfile = res.data,
            !.loading = FALSE,
            !.fetching = @ \ {call}]
    ELSE [v EXCEPT
            !.currentUserProfile = IF res.error = NoError THEN res.data ELSE @,
            !.fetching = @ \ {call}]

fetchUserProfile(t) ==
  /\ view[t].route = "view"
  /\ \E call \in view[t].fetching :
       /\ call.q = "own"
       /\ \E res \in Outcomes(SelectProfileByUserId(call.uid), Failure) :
            /\ Spend(res)
            /\ view' = [view EXCEPT ![t] = AfterFetchUserProfile(view[t], call, res)]
  /\ UNCHANGED <<profiles, requests, user, create, dash, own, browse>>

(* The auth collaborator reports another principal (sign-out, sign-in):    *)
(* the effects that depend on user run again.                               *)
authStateChange(t, u) ==
  /\ view[t].route = "view"
  /\ view[t].authChanges < MaxAuthChanges
  /\ u # user[t]
  /\ (u = NoUser) # (user[t] = NoUser)
  /\ user' = [user EXCEPT ![t] = u]
  /\ view' = [view EXCEPT ![t] =
       IF view[t].impl = "ProfilePage"
         THEN [@ EXCEPT !.loading = TRUE, !.error = NoError,
                        !.fetching = @ \cup {[q |-> "viewed", uid |-> u]},
                        !.authChanges = @ + 1]
       ELSE IF u # NoUser
         THEN [@ EXCEPT !.fetching = @ \cup {[q |-> "own", uid |-> u]},
                        !.authChanges = @ + 1]
       ELSE [@ EXCEPT !.authChanges = @ + 1]]
  /\ UNCHANGED <<profiles, requests, faults, create, dash, own, browse>>

(* the dialog rendered to the owner of the viewed profile as well *)
DialogShownToOwner(t) ==
  LET v == view[t] IN
  /\ v.route = "view"
  /\ ~v.loading
  /\ v.profile # {}
  /\ user[t] # NoUser
  /\ v.impl = "ProfileViewPage" => v.currentUserProfile # {}

(* The Send Request dialog is rendered. *)
DialogShown(t) ==
  LET v == view[t] IN
  /\ v.route = "view"
  /\ ~v.loading
  /\ v.profile # {}
  /\ user[t] # NoUser
  /\ \A p \in v.profile : user[t] # p.user_id
  /\ v.impl = "ProfileViewPage" => v.currentUserProfile # {}

(* the options of a skill select: the skills_offered of the fetched        *)
(* profile, and in the plain select of ProfilePage the empty first option  *)
Options(impl, snapshot) ==
  (IF impl = "ProfilePage" THEN {""} ELSE {})
    \cup UNION {Range(p.skills_offered) : p \in snapshot}

selectSkill(t) ==
  /\ DialogShown(t)
  /\ \E offered \in Options(view[t].impl, view[t].currentUserProfile) \cup {view[t].skill_offered},
        wanted \in Options(view[t].impl, view[t].profile) \cup {view[t].skill_wanted} :
       /\ <<offered, wanted>> # <<view[t].skill_offered, view[t].skill_wanted>>
       /\ view' = [view EXCEPT ![t].skill_offered = offered, ![t].skill_wanted = wanted]
  /\ UNCHANGED <<profiles, requests, faults, user, create, dash, own, browse>>

(* The dialog's submit button is enabled with this message typed. *)
SendEnabled(t, message) ==
  LET v == view[t] IN
  /\ DialogShown(t)
  /\ ~v.sending
  /\ v.impl = "ProfilePage" =>
       Len(trim(message)) > 0 /\ v.skill_offered # "" /\ v.skill_wanted # ""

FillInAllFields == "Please fill in all fields"

RequestPayload(v, uid, message) ==
  {[from_user_id |-> uid,
    to_user_id |-> p.user_id,
    message |-> IF v.impl = "ProfilePage" THEN trim(message) ELSE message,
    skill_offered |-> v.skill_offered,
    skill_wanted |-> v.skill_wanted,
    status |-> "pending"] : p \in v.profile}

(* the handler testing the message without trim() *)
handleSendRequestBodyNoTrim(v, uid, message) ==
  IF uid = NoUser \/ v.profile = {} \/ v.currentUserProfile = {}
    THEN [v EXCEPT !.route = "login"]
  ELSE IF Len(message) = 0 \/ v.skill_offered = "" \/ v.skill_wanted = ""
    THEN [v EXCEPT !.error = FillInAllFields]
  ELSE [v EXCEPT !.sending = TRUE, !.error = NoError,
                 !.inserting = RequestPayload(v, uid, message)]

(* handleSendRequest / sendRequest up to the insert call *)
handleSendRequestBody(v, uid, message) ==
  IF uid = NoUser \/ v.profile = {} \/ v.currentUserProfile = {}
    THEN [v EXCEPT !.route = "login"]
  ELSE IF Len(trim(message)) = 0 \/ v.skill_offered = "" \/ v.skill_wanted = ""
    THEN [v EXCEPT !.error = FillInAllFields]
  ELSE [v EXCEPT !.sending = TRUE, !.error = NoError,
                 !.inserting = RequestPayload(v, uid, message)]

handleSendRequest(t) ==
  /\ Cardinality(requests) < MaxRequests
  /\ \E message \in Messages :
       /\ SendEnabled(t, message)
       /\ view' = [view EXCEPT ![t] = handleSendRequestBody(view[t], user[t], message)]
  /\ UNCHANGED <<profiles, requests, faults, user, create, dash, own, browse>>

handleSendRequestReturn(t) ==
  /\ view[t].route = "view"
  /\ \E payload \in view[t].inserting :
     \E res \in Outcomes(InsertRequest(payload.from_user_id, payload), RequestsFailure) :
       /\ Spend(res)
       /\ requests' = res.requests
       /\ view' = [view EXCEPT ![t] =
            [@ EXCEPT
               !.error = IF res.error # NoError THEN res.error ELSE @,
               !.success = IF res.error = NoError THEN TRUE ELSE @,
               !.skill_offered = IF res.error = NoError THEN "" ELSE @,
               !.skill_wanted = IF res.error = NoError THEN "" ELSE @,
               !.sending = FALSE,
               !.inserting = {}]]
  /\ UNCHANGED <<profiles, user, create, dash, own, browse>>

----------------------------------------------------------------------------
(* Dashboard page.  fetching holds the stages of the fetchUserData calls in *)
(* flight, updating the accept/decline updates in flight.  impl names the   *)
(* loader of the page: fetchUserData (with handleRequestAction) or          *)
(* fetchDashboardData (with updateRequestStatus), whose sentData is the     *)
(* answer of its first query, held until the second one returned.           *)

DashImpls == {"fetchUserData", "fetchDashboardData"}

(* the handler also taking "pending" *)
DecisionsWithPending == {"accepted", "declined", "pending"}

(* the handler also taking "completed" *)
DecisionsWithCompleted == {"accepted", "declined", "completed"}

Decisions == {"accepted", "declined"}

MaxUpdating == 2

DashClosed ==
  [route |-> "closed", impl |-> "fetchUserData",
   profile |-> {}, incomingRequests |-> {}, sentRequests |-> {}, sentData |-> {},
   loading |-> TRUE, error |-> NoError, fetching |-> {}, updating |-> {}]

DashMounted(u) ==
  IF u = NoUser
    THEN [DashClosed EXCEPT !.route = "login"]
    ELSE [DashClosed EXCEPT !.route = "dashboard", !.fetching = {"profile"}]

(* the page loaded by fetchDashboardData after its mount effect ran *)
DashboardMounted(u) ==
  IF u = NoUser
    THEN [DashClosed EXCEPT !.route = "login", !.impl = "fetchDashboardData"]
    ELSE [DashClosed EXCEPT !.route = "dashboard", !.impl = "fetchDashboardData",
                            !.fetching = {"dashboard"}]

(* the first stage of the page's loader *)
Refresh(d) == IF d.impl = "fetchUserData" THEN "profile" ELSE "dashboard"

(* fetchUserData: the own-profile query returns *)
fetchUserData(t) ==
  /\ dash[t].route = "dashboard"
  /\ "profile" \in dash[t].fetching
  /\ \E res \in Outcomes(SelectProfileByUserId(user[t]), Failure) :
       /\ Spend(res)
       /\ dash' = [dash EXCEPT ![t] =
            IF res.error = PGRST116
              THEN [@ EXCEPT !.route = "create", !.loading = FALSE,
                             !.fetching = @ \ {"profile"}]
            ELSE IF res.error # NoError
              THEN [@ EXCEPT !.error = res.error, !.loading = FALSE,
                             !.fetching = @ \ {"profile"}]
            ELSE [@ EXCEPT !.profile = res.data,
                           !.fetching = (@ \ {"profile"}) \cup {"incoming"}]]
  /\ UNCHANGED <<profiles, requests, user, create, view, own, browse>>

(* fetchUserData: the incoming-requests query returns *)
fetchIncoming(t) ==
  /\ dash[t].route = "dashboard"
  /\ "incoming" \in dash[t].fetching
  /\ \E res \in Outcomes([error |-> NoError, data |-> SelectIncoming(user[t])], Failure) :
       /\ Spend(res)
       /\ dash' = [dash EXCEPT ![t] =
            IF res.error # NoError
              THEN [@ EXCEPT !.error = res.error, !.loading = FALSE,
                             !.fetching = @ \ {"incoming"}]
              ELSE [@ EXCEPT !.incomingRequests = res.data,
                             !.fetching = (@ \ {"incoming"}) \cup {"sent"}]]
  /\ UNCHANGED <<profiles, requests, user, create, view, own, browse>>

(* fetchUserData: the sent-requests query returns *)
fetchSent(t) ==
  /\ dash[t].route = "dashboard"
  /\ "sent" \in dash[t].fetching
  /\ \E res \in Outcomes([error |-> NoError, data |-> SelectSent(user[t])], Failure) :
       /\ Spend(res)
       /\ dash' = [dash EXCEPT ![t] =
            IF res.error # NoError
              THEN [@ EXCEPT !.error = res.error, !.loading = FALSE,
                             !.fetching = @ \ {"sent"}]
              ELSE [@ EXCEPT !.sentRequests = res.data, !.loading = FALSE,
                             !.fetching = @ \ {"sent"}]]
  /\ UNCHANGED <<profiles, requests, user, create, view, own, browse>>

(* fetchDashboardData: the own-profile query returns *)
fetchDashboardData(t) ==
  /\ dash[t].route = "dashboard"
  /\ "dashboard" \in dash[t].fetching
  /\ \E res \in Outcomes(SelectProfileByUserId(user[t]), Failure) :
       /\ Spend(res)
       /\ dash' = [dash EXCEPT ![t] =
            IF res.error = PGRST116
              THEN [@ EXCEPT !.route = "create", !.loading = FALSE,
                             !.fetching = @ \ {"dashboard"}]
            ELSE IF res.error # NoError
              THEN [@ EXCEPT !.error = res.error, !.loading = FALSE,
                             !.fetching = @ \ {"dashboard"}]
            ELSE [@ EXCEPT !.profile = res.data,
                           !.fetching = (@ \ {"dashboard"}) \cup {"sentData"}]]
  /\ UNCHANGED <<profiles, requests, user, create, view, own, browse>>

(* fetchDashboardData: the sent-requests query returns *)
fetchDashboardSent(t) ==
  /\ dash[t].route = "dashboard"
  /\ "sentData" \in dash[t].fetching
  /\ \E res \in Outcomes([error |-> NoError, data |-> SelectSent(user[t])], Failure) :
       /\ Spend(res)
       /\ dash' = [dash EXCEPT ![t] =
            IF res.error # NoError
              THEN [@ EXCEPT !.error = res.error, !.loading = FALSE,
                             !.fetching = @ \ {"sentData"}]
              ELSE [@ EXCEPT !.sentData = res.data,
                             !.fetching = (@ \ {"sentData"}) \cup {"receivedData"}]]
  /\ UNCHANGED <<profiles, requests, user, create, view, own, browse>>

(* fetchDashboardData: the received-requests query returns, and both lists *)
(* are set                                                                 *)
fetchDashboardReceived(t) ==
  /\ dash[t].route = "dashboard"
  /\ "receivedData" \in dash[t].fetching
  /\ \E res \in Outcomes([error |-> NoError, data |-> SelectIncoming(user[t])], Failure) :
       /\ Spend(res)
       /\ dash' = [dash EXCEPT ![t] =
            IF res.error # NoError
              THEN [@ EXCEPT !.error = res.error, !.loading = FALSE, !.sentData = {},
                             !.fetching = @ \ {"receivedData"}]
              ELSE [@ EXCEPT !.sentRequests = dash[t].sentData,
                             !.incomingRequests = res.data,
                             !.sentData = {}, !.loading = FALSE,
                             !.fetching = @ \ {"receivedData"}]]
  /\ UNCHANGED <<profiles, requests, user, create, view, own, browse>>

(* the pending badge of the incoming list *)
pendingCount(d) == Cardinality({r \in d.incomingRequests : r.status = "pending"})

(* the Total Requests line *)
totalRequests(d) == Cardinality(d.incomingRequests) + Cardinality(d.sentRequests)

(* the card counting every request of the two lists *)
allExchanges(d) == Cardinality(d.sentRequests) + Cardinality(d.incomingRequests)

(* the Active Exchanges card: the accepted requests of [...sent, ...received] *)
activeExchanges(d) ==
  Cardinality({r \in d.sentRequests : r.status = "accepted"})
    + Cardinality({r \in d.incomingRequests : r.status = "accepted"})

(* handleRequestAction up to the update call *)
handleRequestAction(t, requestId, action) ==
  /\ dash[t].route = "dashboard"
  /\ Cardinality(dash[t].updating) < MaxUpdating
  /\ dash' = [dash EXCEPT ![t].updating = @ \cup {[id |-> requestId, action |-> action]}]
  /\ UNCHANGED <<profiles, requests, faults, user, create, view, own, browse>>

(* The Accept and Decline buttons of the incoming list. *)
RespondShown(t, request) ==
  /\ dash[t].route = "dashboard"
  /\ ~dash[t].loading
  /\ dash[t].profile # {}
  /\ request \in dash[t].incomingRequests
  /\ request.status = "pending"

respondClick(t) ==
  \E request \in dash[t].incomingRequests, action \in Decisions :
    /\ RespondShown(t, request)
    /\ handleRequestAction(t, request.id, action)

(* the handler called with any request id *)
respondCall(t) ==
  \E request \in requests, action \in Decisions :
    handleRequestAction(t, request.id, action)

handleRequestActionReturn(t) ==
  /\ dash[t].route = "dashboard"
  /\ \E call \in dash[t].updating :
     \E res \in Outcomes(UpdateRequestStatus(user[t], call.id, call.action), RequestsFailure) :
       /\ Spend(res)
       /\ requests' = res.requests
       /\ dash' = [dash EXCEPT ![t] =
            [@ EXCEPT
               !.error = IF res.error # NoError THEN res.error ELSE @,
               !.fetching = IF res.error = NoError THEN @ \cup {Refresh(dash[t])} ELSE @,
               !.updating = @ \ {call}]]
  /\ UNCHANGED <<profiles, user, create, view, own, browse>>

----------------------------------------------------------------------------
(* Own-profile page.  fetching holds the fetchProfile calls in flight, each *)
(* with its caller (the mount effect or handleSave), saving_call the update *)
(* in flight.                                                               *)

Names == {"Alice", "Bob"}

OrEmpty(value) == IF value = Null THEN "" ELSE value

EmptyForm ==
  [name |-> "", location |-> "", bio |-> "",
   skills_offered |-> <<>>, skills_wanted |-> <<>>,
   availability |-> "flexible", is_public |-> TRUE]

OwnClosed ==
  [route |-> "closed", profile |-> {}, loading |-> TRUE, saving |-> FALSE,
   editing |-> FALSE, error |-> NoError, formData |-> EmptyForm,
   fetching |-> {}, updating |-> {}]

OwnMounted(u) ==
  IF u = NoUser
    THEN [OwnClosed EXCEPT !.route = "login"]
    ELSE [OwnClosed EXCEPT !.route = "profile", !.fetching = {"mount"}]

FormOf(p) ==
  [name |-> p.name, location |-> OrEmpty(p.location), bio |-> OrEmpty(p.bio),
   skills_offered |-> p.skills_offered, skills_wanted |-> p.skills_wanted,
   availability |-> p.availability, is_public |-> p.is_public]

(* fetchProfile treating "no row" like any other error *)
AfterFetchOwnProfileNoRowIsError(o, res) ==
  IF res.error # NoError
    THEN [o EXCEPT !.error = res.error, !.loading = FALSE]
  ELSE [o EXCEPT !.profile = res.data,
                 !.formData = FormOf(CHOOSE p \in res.data : TRUE),
                 !.loading = FALSE]

(* the page after fetchProfile got res *)
AfterFetchOwnProfile(o, res) ==
  IF res.error = PGRST116
    THEN [o EXCEPT !.route = "create", !.loading = FALSE]
  ELSE IF res.error # NoError
    THEN [o EXCEPT !.error = res.error, !.loading = FALSE]
  ELSE [o EXCEPT !.profile = res.data,
                 !.formData = FormOf(CHOOSE p \in res.data : TRUE),
                 !.loading = FALSE]

(* fetchProfile of the own-profile page returns; called from handleSave it  *)
(* is followed by setEditing(false) and setSaving(false)                    *)
fetchOwnProfile(t) ==
  /\ own[t].route = "profile"
  /\ \E caller \in own[t].fetching :
     \E res \in Outcomes(SelectProfileByUserId(user[t]), Failure) :
       /\ Spend(res)
       /\ own' = [own EXCEPT ![t] =
            [AfterFetchOwnProfile(own[t], res) EXCEPT
               !.editing = IF caller = "save" THEN FALSE ELSE @,
               !.saving = IF caller = "save" THEN FALSE ELSE @,
               !.fetching = @ \ {caller}]]
  /\ UNCHANGED <<profiles, requests, user, create, view, dash, browse>>

OwnPageShown(t) ==
  /\ own[t].route = "profile"
  /\ ~own[t].loading
  /\ own[t].profile # {}

(* the Edit and Cancel buttons *)
setEditing(t, editing) ==
  /\ OwnPageShown(t)
  /\ own[t].editing # editing
  /\ own' = [own EXCEPT ![t].editing = editing]
  /\ UNCHANGED <<profiles, requests, faults, user, create, view, dash, browse>>

(* the name input and the public switch of the edit form *)
setFormData(t) ==
  /\ OwnPageShown(t)
  /\ own[t].editing
  /\ \E name \in Names, is_public \in BOOLEAN :
       /\ <<name, is_public>> # <<own[t].formData.name, own[t].formData.is_public>>
       /\ name = own[t].formData.name \/ is_public = own[t].formData.is_public
       /\ own' = [own EXCEPT ![t].formData.name = name,
                             ![t].formData.is_public = is_public]
  /\ UNCHANGED <<profiles, requests, faults, user, create, view, dash, browse>>

(* what is typed into a skill input: spaces and at most one word *)
Words == {"React"}

SkillInputs ==
  {<<>>, <<" ">>} \cup UNION {{<<w>>, <<" ", w>>, <<w, " ">>} : w \in Words}

(* the string made of the pieces of an input *)
RECURSIVE Text(_)
Text(pieces) == IF Len(pieces) = 0 THEN "" ELSE Head(pieces) \o Text(Tail(pieces))

SkillField(type) == IF type = "offered" THEN "skills_offered" ELSE "skills_wanted"

(* addSkill without the includes test *)
addSkillUnchecked(t, skill, type) ==
  LET field == SkillField(type)
      list == own[t].formData[field]
      text == Text(trim(skill)) IN
  /\ OwnPageShown(t)
  /\ own[t].editing
  /\ own' = [own EXCEPT ![t].formData[field] =
       IF Len(trim(skill)) = 0 THEN list ELSE Append(list, text)]
  /\ UNCHANGED <<profiles, requests, faults, user, create, view, dash, browse>>

(* addSkill of the own-profile page *)
addSkill(t, skill, type) ==
  LET field == SkillField(type)
      list == own[t].formData[field]
      text == Text(trim(skill)) IN
  /\ OwnPageShown(t)
  /\ own[t].editing
  /\ own' = [own EXCEPT ![t].formData[field] =
       IF Len(trim(skill)) = 0 THEN list
       ELSE IF text \in Range(list) THEN list
       ELSE Append(list, text)]
  /\ UNCHANGED <<profiles, requests, faults, user, create, view, dash, browse>>

(* removeSkill of the own-profile page: the X of a listed skill *)
removeSkill(t, skill, type) ==
  LET field == SkillField(type)
      list == own[t].formData[field]
      kept(s) == s # skill IN
  /\ OwnPageShown(t)
  /\ own[t].editing
  /\ skill \in Range(list)
  /\ own' = [own EXCEPT ![t].formData[field] = SelectSeq(list, kept)]
  /\ UNCHANGED <<profiles, requests, faults, user, create, view, dash, browse>>

(* addSkill of the create page *)
addSkillCreate(t, skill, type) ==
  LET field == SkillField(type)
      list == create[t][field]
      text == Text(trim(skill)) IN
  /\ CreateFormShown(t)
  /\ create' = [create EXCEPT ![t][field] =
       IF Len(trim(skill)) = 0 THEN list
       ELSE IF text \in Range(list) THEN list
       ELSE Append(list, text)]
  /\ UNCHANGED <<profiles, requests, faults, user, view, dash, own, browse>>

(* removeSkill of the create page: the X of a listed skill *)
removeSkillCreate(t, skill, type) ==
  LET field == SkillField(type)
      list == create[t][field]
      kept(s) == s # skill IN
  /\ CreateFormShown(t)
  /\ skill \in Range(list)
  /\ create' = [create EXCEPT ![t][field] = SelectSeq(list, kept)]
  /\ UNCHANGED <<profiles, requests, faults, user, view, dash, own, browse>>

(* handleSave up to the update call *)
handleSave(t) ==
  LET formData == own[t].formData IN
  /\ OwnPageShown(t)
  /\ own[t].editing
  /\ ~own[t].saving
  /\ user[t] # NoUser
  /\ own' = [own EXCEPT ![t] =
       [@ EXCEPT
          !.saving = TRUE,
          !.error = NoError,
          !.updating =
            {[user_id |-> user[t],
              patch |-> [name |-> formData.name,
                         location |-> OrNull(formData.location),
                         bio |-> OrNull(formData.bio),
                         skills_offered |-> formData.skills_offered,
                         skills_wanted |-> formData.skills_wanted,
                         availability |-> formData.availability,
                         is_public |-> formData.is_public]]}]]
  /\ UNCHANGED <<profiles, requests, faults, user, create, view, dash, browse>>

handleSaveReturn(t) ==
  /\ own[t].route = "profile"
  /\ \E call \in own[t].updating :
     \E res \in Outcomes(UpdateProfile(user[t], call.user_id, call.patch), UpsertFailure) :
       /\ Spend(res)
       /\ profiles' = res.profiles
       /\ own' = [own EXCEPT ![t] =
            [@ EXCEPT
               !.error = IF res.error # NoError THEN res.error ELSE @,
               !.saving = IF res.error # NoError THEN FALSE ELSE @,
               !.fetching = IF res.error = NoError THEN @ \cup {"save"} ELSE @,
               !.updating = {}]]
  /\ UNCHANGED <<requests, user, create, view, dash, browse>>

----------------------------------------------------------------------------
(* Browse page.  Its texts are sequences of letters, so that case folding   *)
(* and substring search are computed; a nullable text is a set of at most   *)
(* one text.                                                                *)

toLowerCase(s) ==
  [i \in 1..Len(s) |-> IF s[i] = "A" THEN "a" ELSE IF s[i] = "B" THEN "b" ELSE s[i]]

includes(s, part) ==
  \E i \in 1..(Len(s) - Len(part) + 1) : SubSeq(s, i, i + Len(part) - 1) = part

some(list, test(_)) == \E i \in 1..Len(list) : test(list[i])

All == <<"a", "l", "l">>

SortChoices == {"newest", "oldest", "name", "skills"}

BrowseClosed ==
  [route |-> "closed", profiles |-> <<>>, filteredProfiles |-> <<>>,
   searchTerm |-> <<>>, locationFilter |-> <<>>, availabilityFilter |-> All,
   sortBy |-> "newest", loading |-> TRUE, fetching |-> FALSE]

matchesSearch(profile, searchTerm) ==
  LET hit(skill) == includes(toLowerCase(skill), toLowerCase(searchTerm)) IN
  \/ searchTerm = <<>>
  \/ some(profile.skills_offered, hit)
  \/ some(profile.skills_wanted, hit)
  \/ includes(toLowerCase(profile.name), toLowerCase(searchTerm))

matchesLocation(profile, locationFilter) ==
  \/ locationFilter = <<>>
  \/ \E location \in profile.location :
       /\ location # <<>>
       /\ includes(toLowerCase(location), toLowerCase(locationFilter))

matchesAvailability(profile, availabilityFilter) ==
  \/ availabilityFilter = All
  \/ toLowerCase(profile.availability) = toLowerCase(availabilityFilter)

(* collation of letters: by letter first, lower case before upper case *)
Letter(c) == IF toLowerCase(<<c>>) = <<"a">> THEN 1 ELSE 2
Case(c) == IF toLowerCase(<<c>>) = <<c>> THEN 1 ELSE 2

RECURSIVE CompareBy(_, _, _)
CompareBy(weight(_), a, b) ==
  IF Len(a) = 0 /\ Len(b) = 0 THEN 0
  ELSE IF Len(a) = 0 THEN 0 - 1
  ELSE IF Len(b) = 0 THEN 1
  ELSE IF weight(Head(a)) # weight(Head(b)) THEN weight(Head(a)) - weight(Head(b))
  ELSE CompareBy(weight, Tail(a), Tail(b))

localeCompare(a, b) ==
  IF CompareBy(Letter, a, b) # 0 THEN CompareBy(Letter, a, b) ELSE CompareBy(Case, a, b)

(* the comparator of filtered.sort *)
Compare(sortBy, a, b) ==
  IF sortBy = "newest" THEN b.created_at - a.created_at
  ELSE IF sortBy = "oldest" THEN a.created_at - b.created_at
  ELSE IF sortBy = "name" THEN localeCompare(a.name, b.name)
  ELSE IF sortBy = "skills" THEN Len(b.skills_offered) - Len(a.skills_offered)
  ELSE 0

Max(numbers) == CHOOSE n \in numbers : \A k \in numbers : k <= n

(* the sort putting an element before the elements that compare equal *)
InsertBeforeEqual(sorted, x, sortBy) ==
  LET k == Max({0} \cup {i \in 1..Len(sorted) : Compare(sortBy, sorted[i], x) < 0}) IN
  SubSeq(sorted, 1, k) \o <<x>> \o SubSeq(sorted, k + 1, Len(sorted))

(* Array.prototype.sort is stable: an element goes after the elements that  *)
(* compare lower or equal                                                   *)
Insert(sorted, x, sortBy) ==
  LET k == Max({0} \cup {i \in 1..Len(sorted) : Compare(sortBy, sorted[i], x) <= 0}) IN
  SubSeq(sorted, 1, k) \o <<x>> \o SubSeq(sorted, k + 1, Len(sorted))

RECURSIVE sort(_, _)
sort(list, sortBy) ==
  IF Len(list) = 0 THEN list
  ELSE Insert(sort(SubSeq(list, 1, Len(list) - 1), sortBy), list[Len(list)], sortBy)

(* the filter with the three tests joined by "or" *)
filterAny(list, searchTerm, locationFilter, availabilityFilter) ==
  LET keep(profile) ==
        \/ matchesSearch(profile, searchTerm)
        \/ matchesLocation(profile, locationFilter)
        \/ matchesAvailability(profile, availabilityFilter) IN
  SelectSeq(list, keep)

filter(list, searchTerm, locationFilter, availabilityFilter) ==
  LET keep(profile) ==
        /\ matchesSearch(profile, searchTerm)
        /\ matchesLocation(profile, locationFilter)
        /\ matchesAvailability(profile, availabilityFilter) IN
  SelectSeq(list, keep)

(* the effect that follows every change of a filter, of the sort choice or  *)
(* of the fetched profiles                                                  *)
applyFilters(b) ==
  [b EXCEPT !.filteredProfiles =
     sort(filter(b.profiles, b.searchTerm, b.locationFilter, b.availabilityFilter),
          b.sortBy)]

BrowseMounted == applyFilters([BrowseClosed EXCEPT !.route = "browse", !.fetching = TRUE])

(* the orders in which the store can return rows for                        *)
(* .order("created_at", {ascending: false})                                 *)
OrderedByCreatedAtDescending(rows) ==
  {list \in [1..Cardinality(rows) -> rows] :
     /\ \A i, j \in 1..Cardinality(rows) : i # j => list[i] # list[j]
     /\ \A i, j \in 1..Cardinality(rows) : i < j => list[i].created_at >= list[j].created_at}

SelectPublicProfiles(uid) ==
  OrderedByCreatedAtDescending({p \in VisibleProfiles(uid) : p.is_public = TRUE})

(* fetchProfiles of the browse page returns *)
fetchProfiles ==
  /\ browse.route = "browse"
  /\ browse.fetching
  /\ \E data \in SelectPublicProfiles(NoUser) :
     \E res \in Outcomes([error |-> NoError, data |-> data], [error |-> FetchFailed, data |-> <<>>]) :
       /\ Spend(res)
       /\ browse' = applyFilters(
            [browse EXCEPT
               !.profiles = IF res.error = NoError THEN res.data ELSE @,
               !.loading = FALSE,
               !.fetching = FALSE])
  /\ UNCHANGED <<profiles, requests, user, create, view, dash, own>>

BrowseShown == browse.route = "browse" /\ ~browse.loading

SearchTerms == {<<>>, <<"A">>, <<"b">>}
LocationFilters == {<<>>, <<"a">>}
AvailabilityFilters == {All, <<"a">>, <<"b">>}

setSearchTerm(term) ==
  /\ BrowseShown
  /\ term # browse.searchTerm
  /\ browse' = applyFilters([browse EXCEPT !.searchTerm = term])
  /\ UNCHANGED <<profiles, requests, faults, user, create, view, dash, own>>

setLocationFilter(location) ==
  /\ BrowseShown
  /\ location # browse.locationFilter
  /\ browse' = applyFilters([browse EXCEPT !.locationFilter = location])
  /\ UNCHANGED <<profiles, requests, faults, user, create, view, dash, own>>

setAvailabilityFilter(availability) ==
  /\ BrowseShown
  /\ availability # browse.availabilityFilter
  /\ browse' = applyFilters([browse EXCEPT !.availabilityFilter = availability])
  /\ UNCHANGED <<profiles, requests, faults, user, create, view, dash, own>>

setSortBy(choice) ==
  /\ BrowseShown
  /\ choice # browse.sortBy
  /\ browse' = applyFilters([browse EXCEPT !.sortBy = choice])
  /\ UNCHANGED <<profiles, requests, faults, user, create, view, dash, own>>

clearFilters ==
  /\ BrowseShown
  /\ browse' = applyFilters(
       [browse EXCEPT !.searchTerm = <<>>, !.locationFilter = <<>>,
                      !.availabilityFilter = All, !.sortBy = "newest"])
  /\ UNCHANGED <<profiles, requests, faults, user, create, view, dash, own>>

----------------------------------------------------------------------------
(* Home page.  Its state is kept in the record of the browse page: the      *)
(* two pages are never open together, and the home page has a search term,  *)
(* the fetched profiles and the filtered profiles only.                     *)

HomeLimit == 8

HomeMounted == [BrowseClosed EXCEPT !.route = "home", !.fetching = TRUE]

(* the profiles handleSearch selects *)
search(list, term) ==
  LET hit(skill) == includes(toLowerCase(skill), toLowerCase(term))
      keep(profile) ==
        \/ some(profile.skills_offered, hit)
        \/ some(profile.skills_wanted, hit)
        \/ includes(toLowerCase(profile.name), toLowerCase(term)) IN
  IF trim(term) = <<>> THEN list ELSE SelectSeq(list, keep)

(* select * where is_public limit 8: at most HomeLimit rows in any order *)
SelectFeaturedProfiles(uid) ==
  LET rows == {p \in VisibleProfiles(uid) : p.is_public = TRUE}
      n == IF Cardinality(rows) < HomeLimit THEN Cardinality(rows) ELSE HomeLimit IN
  {list \in [1..n -> rows] : \A i, j \in 1..n : i # j => list[i] # list[j]}

(* fetchProfiles of the home page returns; the effect on profiles runs      *)
(* handleSearch with the term typed so far                                  *)
fetchHomeProfiles ==
  /\ browse.route = "home"
  /\ browse.fetching
  /\ \E data \in SelectFeaturedProfiles(NoUser) :
     \E res \in Outcomes([error |-> NoError, data |-> data], [error |-> FetchFailed, data |-> <<>>]) :
       /\ Spend(res)
       /\ browse' =
            [browse EXCEPT
               !.profiles = IF res.error = NoError THEN res.data ELSE @,
               !.filteredProfiles =
                 IF res.error = NoError THEN search(res.data, browse.searchTerm) ELSE @,
               !.loading = FALSE,
               !.fetching = FALSE]
  /\ UNCHANGED <<profiles, requests, user, create, view, dash, own>>

HomeSearchTerms == SearchTerms \cup {<<" ">>}

(* the search input of the home page *)
handleSearch(term) ==
  /\ browse.route = "home"
  /\ ~browse.loading
  /\ browse' = [browse EXCEPT !.searchTerm = term,
                               !.filteredProfiles = search(browse.profiles, term)]
  /\ UNCHANGED <<profiles, requests, faults, user, create, view, dash, own>>

----------------------------------------------------------------------------
(* Initial states and specifications *)

StoredProfile(id, u, public) ==
  [id |-> id, user_id |-> u, name |-> "Alice", email |-> Email(u),
   location |-> Null, bio |-> Null,
   skills_offered |-> <<"React">>, skills_wanted |-> <<>>,
   availability |-> "flexible", is_public |-> public, created_at |-> Now]

StoredRequest(id, from, to) ==
  [id |-> id, from_user_id |-> from, to_user_id |-> to, message |-> <<"h">>,
   skill_offered |-> "React", skill_wanted |-> "React", status |-> "pending",
   created_at |-> Now]

(* u1 and u2 have profiles (u1's public or private), u3 has none *)
InitialStores ==
  {{StoredProfile(1, "u1", public), StoredProfile(2, "u2", TRUE)} : public \in BOOLEAN}

ViewTargets == {1, 2, 3}

(* the tabs in open are on their pages, signed in as who(t); the others are *)
(* closed                                                                   *)
Opened(open, who, impl, id) ==
  /\ user = [t \in Tabs |-> IF t \in open THEN who[t] ELSE NoUser]
  /\ create = [t \in CreateTabs |->
                 IF t \in open THEN CreateMounted(who[t]) ELSE CreateClosed]
  /\ view = [t \in ViewTabs |->
               IF t \in open THEN ViewMounted(impl, id, who[t]) ELSE ViewClosed]
  /\ dash = [t \in DashTabs |->
               IF t \in open THEN DashMounted(who[t]) ELSE DashClosed]
  /\ own = [t \in OwnTabs |->
              IF t \in open THEN OwnMounted(who[t]) ELSE OwnClosed]
  /\ browse = IF "browse" \in open THEN BrowseMounted ELSE BrowseClosed

(* Create page: two tabs of u1 and one of u2 on an empty store. *)
CreateUsers == [t \in Tabs |-> IF t = "c3" THEN "u2" ELSE "u1"]

InitCreate ==
  /\ profiles = {}
  /\ requests = {}
  /\ faults = MaxFaults
  /\ Opened(CreateTabs, CreateUsers, "ProfilePage", 1)

NextCreate ==
  \/ \E t \in CreateTabs : checkExistingProfile(t)
  \/ \E t \in CreateTabs : handleSubmit(t)
  \/ \E t \in CreateTabs : handleSubmitReturn(t)

SpecCreate == InitCreate /\ [][NextCreate]_vars

(* Profile-by-id page: one tab, any viewer, any target. *)
InitView ==
  /\ profiles \in InitialStores
  /\ requests = {}
  /\ faults = MaxFaults
  /\ \E viewer \in Users \cup {NoUser}, impl \in ViewImpls, id \in ViewTargets :
       Opened(ViewTabs, [t \in Tabs |-> viewer], impl, id)

NextView ==
  \/ \E t \in ViewTabs : fetchProfile(t)
  \/ \E t \in ViewTabs : fetchUserProfile(t)
  \/ \E t \in ViewTabs, u \in Users \cup {NoUser} : authStateChange(t, u)
  \/ \E t \in ViewTabs : selectSkill(t)
  \/ \E t \in ViewTabs : handleSendRequest(t)
  \/ \E t \in ViewTabs : handleSendRequestReturn(t)

SpecView == InitView /\ [][NextView]_vars

(* Two dashboards of u1, who has a pending request from u2: d1 the page of *)
(* fetchUserData, d2 the page of fetchDashboardData.                       *)
InitRace ==
  /\ profiles = {StoredProfile(1, "u1", TRUE), StoredProfile(2, "u2", TRUE)}
  /\ requests = {StoredRequest(1, "u2", "u1")}
  /\ faults = MaxFaults
  /\ user = [t \in Tabs |-> IF t \in DashTabs THEN "u1" ELSE NoUser]
  /\ create = [t \in CreateTabs |-> CreateClosed]
  /\ view = [t \in ViewTabs |-> ViewClosed]
  /\ dash = [t \in DashTabs |->
               IF t = "d1" THEN DashMounted(user[t]) ELSE DashboardMounted(user[t])]
  /\ own = [t \in OwnTabs |-> OwnClosed]
  /\ browse = BrowseClosed

NextRace ==
  \/ \E t \in DashTabs : fetchUserData(t)
  \/ \E t \in DashTabs : fetchIncoming(t)
  \/ \E t \in DashTabs : fetchSent(t)
  \/ \E t \in DashTabs : fetchDashboardData(t)
  \/ \E t \in DashTabs : fetchDashboardSent(t)
  \/ \E t \in DashTabs : fetchDashboardReceived(t)
  \/ \E t \in DashTabs : respondClick(t)
  \/ \E t \in DashTabs : handleRequestActionReturn(t)

SpecRace == InitRace /\ [][NextRace]_vars

(* The handlers called directly: u2 on the by-id page of u1's profile, and  *)
(* a dashboard of u1 or of u2 whose handler is called with any request id.  *)
InitHandlers ==
  /\ profiles = {StoredProfile(1, "u1", TRUE), StoredProfile(2, "u2", TRUE)}
  /\ requests = {}
  /\ faults = MaxFaults
  /\ \E responder \in {"u1", "u2"}, impl \in ViewImpls :
       Opened({"v1", "d1"}, [t \in Tabs |-> IF t = "d1" THEN responder ELSE "u2"],
              impl, 1)

NextHandlers ==
  \/ \E t \in ViewTabs : fetchProfile(t)
  \/ \E t \in ViewTabs : fetchUserProfile(t)
  \/ \E t \in ViewTabs : selectSkill(t)
  \/ \E t \in ViewTabs : handleSendRequest(t)
  \/ \E t \in ViewTabs : handleSendRequestReturn(t)
  \/ \E t \in DashTabs : fetchUserData(t)
  \/ \E t \in DashTabs : fetchIncoming(t)
  \/ \E t \in DashTabs : fetchSent(t)
  \/ \E t \in DashTabs : respondCall(t)
  \/ \E t \in DashTabs : handleRequestActionReturn(t)

SpecHandlers == InitHandlers /\ [][NextHandlers]_vars

(* Request lifecycle through the pages: u2 on the by-id page of u1's        *)
(* profile, next to u1 on the dashboard, u1 on the own-profile page or u3   *)
(* on the create page.                                                      *)
Principals ==
  [t \in Tabs |-> IF t \in ViewTabs THEN "u2" ELSE IF t \in CreateTabs THEN "u3" ELSE "u1"]

Layouts == {{"v1", "d1"}, {"v1", "p1"}, {"v1", "c1"}}

Init ==
  /\ profiles = {StoredProfile(1, "u1", TRUE), StoredProfile(2, "u2", TRUE)}
  /\ requests = {}
  /\ faults = MaxFaults
  /\ \E open \in Layouts, impl \in ViewImpls : Opened(open, Principals, impl, 1)

Next ==
  \/ \E t \in CreateTabs : checkExistingProfile(t)
  \/ \E t \in CreateTabs : handleSubmit(t)
  \/ \E t \in CreateTabs : handleSubmitReturn(t)
  \/ \E t \in ViewTabs : fetchProfile(t)
  \/ \E t \in ViewTabs : fetchUserProfile(t)
  \/ \E t \in ViewTabs : selectSkill(t)
  \/ \E t \in ViewTabs : handleSendRequest(t)
  \/ \E t \in ViewTabs : handleSendRequestReturn(t)
  \/ \E t \in DashTabs : fetchUserData(t)
  \/ \E t \in DashTabs : fetchIncoming(t)
  \/ \E t \in DashTabs : fetchSent(t)
  \/ \E t \in DashTabs : respondClick(t)
  \/ \E t \in DashTabs : handleRequestActionReturn(t)
  \/ \E t \in OwnTabs : fetchOwnProfile(t)
  \/ \E t \in OwnTabs, editing \in BOOLEAN : setEditing(t, editing)
  \/ \E t \in OwnTabs : setFormData(t)
  \/ \E t \in OwnTabs : handleSave(t)
  \/ \E t \in OwnTabs : handleSaveReturn(t)

Spec == Init /\ [][Next]_vars

(* Skills going stale: u2 on the by-id page of u1's profile while u1, or u2 *)
(* in another session, edits the skills of their own profile.               *)
InitSkills ==
  /\ profiles = {StoredProfile(1, "u1", TRUE), StoredProfile(2, "u2", TRUE)}
  /\ requests = {}
  /\ faults = MaxFaults
  /\ \E owner \in {"u1", "u2"}, impl \in ViewImpls :
       Opened({"v1", "p1"}, [t \in Tabs |-> IF t = "p1" THEN owner ELSE "u2"],
              impl, 1)

NextSkills ==
  \/ \E t \in ViewTabs : fetchProfile(t)
  \/ \E t \in ViewTabs : fetchUserProfile(t)
  \/ \E t \in ViewTabs : selectSkill(t)
  \/ \E t \in ViewTabs : handleSendRequest(t)
  \/ \E t \in ViewTabs : handleSendRequestReturn(t)
  \/ \E t \in OwnTabs : fetchOwnProfile(t)
  \/ \E t \in OwnTabs, editing \in BOOLEAN : setEditing(t, editing)
  \/ \E t \in OwnTabs, skill \in SkillInputs, type \in {"offered", "wanted"} :
       addSkill(t, skill, type)
  \/ \E t \in OwnTabs, skill \in Words, type \in {"offered", "wanted"} :
       removeSkill(t, skill, type)
  \/ \E t \in OwnTabs : handleSave(t)
  \/ \E t \in OwnTabs : handleSaveReturn(t)

SpecSkills == InitSkills /\ [][NextSkills]_vars

(* Dashboards of both loaders: u1 and u2 each sent the other a request; u1 *)
(* has the page of fetchDashboardData open, u2 the page of fetchUserData;  *)
(* every call is answered by the store.                                    *)
InitDashboard ==
  /\ profiles = {StoredProfile(1, "u1", TRUE), StoredProfile(2, "u2", TRUE)}
  /\ requests = {StoredRequest(1, "u2", "u1"), StoredRequest(2, "u1", "u2")}
  /\ faults = 0
  /\ user = [t \in Tabs |-> IF t = "d1" THEN "u1" ELSE IF t = "d2" THEN "u2" ELSE NoUser]
  /\ create = [t \in CreateTabs |-> CreateClosed]
  /\ view = [t \in ViewTabs |-> ViewClosed]
  /\ own = [t \in OwnTabs |-> OwnClosed]
  /\ browse = BrowseClosed
  /\ dash = [t \in DashTabs |->
               IF t = "d1" THEN DashboardMounted(user[t]) ELSE DashMounted(user[t])]

NextDashboard ==
  \/ \E t \in DashTabs : fetchUserData(t)
  \/ \E t \in DashTabs : fetchIncoming(t)
  \/ \E t \in DashTabs : fetchSent(t)
  \/ \E t \in DashTabs : fetchDashboardData(t)
  \/ \E t \in DashTabs : fetchDashboardSent(t)
  \/ \E t \in DashTabs : fetchDashboardReceived(t)
  \/ \E t \in DashTabs : respondClick(t)
  \/ \E t \in DashTabs : handleRequestActionReturn(t)

SpecDashboard == InitDashboard /\ [][NextDashboard]_vars

(* The skill inputs of the two forms: u3 on the create page, or u1 on the   *)
(* own-profile page, typing two different words; every call is answered by *)
(* the store.                                                              *)
FormWords == {"React", "Vue"}

FormSkillInputs ==
  {<<>>, <<" ">>} \cup UNION {{<<w>>, <<" ", w>>, <<w, " ">>} : w \in FormWords}

FormTabs == {"c1", "p1"}

InitForms ==
  /\ profiles = {StoredProfile(1, "u1", TRUE), StoredProfile(2, "u2", TRUE)}
  /\ requests = {}
  /\ faults = 0
  /\ \E t \in FormTabs :
       Opened({t}, [x \in Tabs |-> IF x \in CreateTabs THEN "u3" ELSE "u1"],
              "ProfilePage", 1)

NextForms ==
  \/ \E t \in CreateTabs : checkExistingProfile(t)
  \/ \E t \in CreateTabs, skill \in FormSkillInputs, type \in {"offered", "wanted"} :
       addSkillCreate(t, skill, type)
  \/ \E t \in CreateTabs, skill \in FormWords, type \in {"offered", "wanted"} :
       removeSkillCreate(t, skill, type)
  \/ \E t \in CreateTabs : handleSubmit(t)
  \/ \E t \in CreateTabs : handleSubmitReturn(t)
  \/ \E t \in OwnTabs : fetchOwnProfile(t)
  \/ \E t \in OwnTabs, editing \in BOOLEAN : setEditing(t, editing)
  \/ \E t \in OwnTabs, skill \in FormSkillInputs, type \in {"offered", "wanted"} :
       addSkill(t, skill, type)
  \/ \E t \in OwnTabs, skill \in FormWords, type \in {"offered", "wanted"} :
       removeSkill(t, skill, type)
  \/ \E t \in OwnTabs : handleSave(t)
  \/ \E t \in OwnTabs : handleSaveReturn(t)

SpecForms == InitForms /\ [][NextForms]_vars

(* Two sessions of u1 on the own-profile page; every call is answered by   *)
(* the store.                                                              *)
InitSaves ==
  /\ profiles = {StoredProfile(1, "u1", TRUE), StoredProfile(2, "u2", TRUE)}
  /\ requests = {}
  /\ faults = 0
  /\ Opened(OwnTabs, [t \in Tabs |-> "u1"], "ProfilePage", 1)

NextSaves ==
  \/ \E t \in OwnTabs : fetchOwnProfile(t)
  \/ \E t \in OwnTabs, editing \in BOOLEAN : setEditing(t, editing)
  \/ \E t \in OwnTabs : setFormData(t)
  \/ \E t \in OwnTabs : handleSave(t)
  \/ \E t \in OwnTabs : handleSaveReturn(t)

SpecSaves == InitSaves /\ [][NextSaves]_vars

(* The availability values of the forms against the availability options   *)
(* of the browse page: one public profile stored with a value of the        *)
(* create or edit form.                                                     *)
Flexible == <<"f", "l", "e", "x", "i", "b", "l", "e">>
Weekends == <<"w", "e", "e", "k", "e", "n", "d", "s">>
Evenings == <<"e", "v", "e", "n", "i", "n", "g", "s">>
Weekdays == <<"w", "e", "e", "k", "d", "a", "y", "s">>
Limited == <<"l", "i", "m", "i", "t", "e", "d">>
ByAppointment == <<"b", "y", "-", "a", "p", "p", "o", "i", "n", "t", "m", "e", "n", "t">>

FormAvailabilities == {Flexible, Weekends, Evenings, Weekdays, Limited}

AvailabilityOptions == {All, Weekdays, Weekends, Evenings, Flexible, ByAppointment}

AvailabilityStores ==
  {{[id |-> 1, user_id |-> "u1", name |-> <<"A">>, location |-> {},
     skills_offered |-> <<>>, skills_wanted |-> <<>>,
     availability |-> availability, is_public |-> TRUE, created_at |-> Now]} :
     availability \in FormAvailabilities}

InitAvailability ==
  /\ profiles \in AvailabilityStores
  /\ requests = {}
  /\ faults = MaxFaults
  /\ Opened({"browse"}, [t \in Tabs |-> NoUser], "ProfilePage", 1)

NextAvailability ==
  \/ fetchProfiles
  \/ \E availability \in AvailabilityOptions : setAvailabilityFilter(availability)
  \/ \E choice \in SortChoices : setSortBy(choice)
  \/ clearFilters

SpecAvailability == InitAvailability /\ [][NextAvailability]_vars

(* Own-profile lookups: one tab (create page, dashboard or own-profile      *)
(* page) of any principal, with or without a stored profile.                *)
LookupTabs == {"c1", "d1", "p1"}

InitLookup ==
  /\ profiles \in InitialStores
  /\ requests = {}
  /\ faults = MaxFaults
  /\ \E t \in LookupTabs, u \in Users :
       Opened({t}, [x \in Tabs |-> u], "ProfilePage", 1)

NextLookup ==
  \/ \E t \in CreateTabs : checkExistingProfile(t)
  \/ \E t \in CreateTabs : handleSubmit(t)
  \/ \E t \in CreateTabs : handleSubmitReturn(t)
  \/ \E t \in DashTabs : fetchUserData(t)
  \/ \E t \in DashTabs : fetchIncoming(t)
  \/ \E t \in DashTabs : fetchSent(t)
  \/ \E t \in OwnTabs : fetchOwnProfile(t)
  \/ \E t \in OwnTabs, editing \in BOOLEAN : setEditing(t, editing)
  \/ \E t \in OwnTabs : setFormData(t)
  \/ \E t \in OwnTabs : handleSave(t)
  \/ \E t \in OwnTabs : handleSaveReturn(t)

SpecLookup == InitLookup /\ [][NextLookup]_vars

(* One page at a time with its visitor signed in, every data-store call in  *)
(* flight eventually returning: the awaited promises of the loaders and of  *)
(* the submit handlers settle, with a row, with no row or with an error.    *)
LiveTabs == {"c1", "d1", "p1", "v1"}

InitLive ==
  /\ profiles \in InitialStores
  /\ requests = {}
  /\ faults = MaxFaults
  /\ \E t \in LiveTabs, u \in Users, impl \in ViewImpls, id \in ViewTargets :
       Opened({t}, [x \in Tabs |-> u], impl, id)

NextLive ==
  \/ \E t \in CreateTabs : checkExistingProfile(t)
  \/ \E t \in CreateTabs : handleSubmit(t)
  \/ \E t \in CreateTabs : handleSubmitReturn(t)
  \/ \E t \in DashTabs : fetchUserData(t)
  \/ \E t \in DashTabs : fetchIncoming(t)
  \/ \E t \in DashTabs : fetchSent(t)
  \/ \E t \in OwnTabs : fetchOwnProfile(t)
  \/ \E t \in OwnTabs, editing \in BOOLEAN : setEditing(t, editing)
  \/ \E t \in OwnTabs : handleSave(t)
  \/ \E t \in OwnTabs : handleSaveReturn(t)
  \/ \E t \in ViewTabs : fetchProfile(t)
  \/ \E t \in ViewTabs : fetchUserProfile(t)
  \/ \E t \in ViewTabs : selectSkill(t)
  \/ \E t \in ViewTabs : handleSendRequest(t)
  \/ \E t \in ViewTabs : handleSendRequestReturn(t)

CallsReturn ==
  /\ WF_vars(\E t \in CreateTabs : checkExistingProfile(t))
  /\ WF_vars(\E t \in CreateTabs : handleSubmitReturn(t))
  /\ WF_vars(\E t \in DashTabs : fetchUserData(t))
  /\ WF_vars(\E t \in DashTabs : fetchIncoming(t))
  /\ WF_vars(\E t \in DashTabs : fetchSent(t))
  /\ WF_vars(\E t \in OwnTabs : fetchOwnProfile(t))
  /\ WF_vars(\E t \in OwnTabs : handleSaveReturn(t))
  /\ WF_vars(\E t \in ViewTabs : fetchProfile(t))
  /\ WF_vars(\E t \in ViewTabs : fetchUserProfile(t))
  /\ WF_vars(\E t \in ViewTabs : handleSendRequestReturn(t))

SpecLive == InitLive /\ [][NextLive]_vars /\ CallsReturn

(* Browse page over a store of up to two profiles. *)
BrowseRows ==
  [name : {<<"A">>, <<"b", "a">>}, location : {{}, {<<"A">>}},
   skills_offered : {<<>>, <<<<"b">>>>}, skills_wanted : {<<>>, <<<<"A">>>>},
   availability : {<<"a">>, <<"B">>}, is_public : BOOLEAN, created_at : {1, 2}]

ReferenceRows ==
  {row \in BrowseRows :
     /\ row.location = {} /\ row.skills_wanted = <<>>
     /\ row.availability = <<"B">> /\ row.is_public}

BrowseStores ==
  {{}} \cup {{[id |-> 2, user_id |-> "u2"] @@ row} : row \in BrowseRows}
   \cup {{[id |-> 1, user_id |-> "u1"] @@ first, [id |-> 2, user_id |-> "u2"] @@ second} :
           first \in ReferenceRows, second \in BrowseRows}

InitBrowse ==
  /\ profiles \in BrowseStores
  /\ requests = {}
  /\ faults = MaxFaults
  /\ Opened({"browse"}, [t \in Tabs |-> NoUser], "ProfilePage", 1)

NextBrowse ==
  \/ fetchProfiles
  \/ \E term \in SearchTerms : setSearchTerm(term)
  \/ \E location \in LocationFilters : setLocationFilter(location)
  \/ \E availability \in AvailabilityFilters : setAvailabilityFilter(availability)
  \/ \E choice \in SortChoices : setSortBy(choice)
  \/ clearFilters

SpecBrowse == InitBrowse /\ [][NextBrowse]_vars

(* Home page over a store of up to two profiles. *)
InitHome ==
  /\ profiles \in BrowseStores
  /\ requests = {}
  /\ faults = MaxFaults
  /\ user = [t \in Tabs |-> NoUser]
  /\ create = [t \in CreateTabs |-> CreateClosed]
  /\ view = [t \in ViewTabs |-> ViewClosed]
  /\ dash = [t \in DashTabs |-> DashClosed]
  /\ own = [t \in OwnTabs |-> OwnClosed]
  /\ browse = HomeMounted

NextHome ==
  \/ fetchHomeProfiles
  \/ \E term \in HomeSearchTerms : handleSearch(term)

SpecHome == InitHome /\ [][NextHome]_vars

----------------------------------------------------------------------------
(* Properties *)

HasProfile(u) == \E p \in profiles : p.user_id = u

(* C1: in every reachable state at most one profile has a given user_id,   *)
(* also when two tabs of one principal both found no row and both submit.  *)
C1_OneProfilePerUser ==
  \A p, q \in profiles : p.user_id = q.user_id => p = q

(* a second submission of u1 is in flight while u1's profile is stored *)
C1_Witness ==
  \E t \in CreateTabs :
    /\ create[t].submitting # {}
    /\ HasProfile(user[t])

(* C2: a create submission that returns while the principal already has a  *)
(* profile inserts no row, changes no stored profile, and leaves the page   *)
(* on the form with an error message instead of redirecting.                *)
C2_CreateFailsWhenProfileExists ==
  [][\A t \in CreateTabs :
       (/\ create[t].submitting # {}
        /\ create'[t].submitting = {}
        /\ HasProfile(user[t]))
       => (/\ profiles' = profiles
           /\ create'[t].error # NoError
           /\ create'[t].route = "create")]_vars

(* a submission was refused by the uniqueness constraint *)
C2_Witness ==
  \E t \in CreateTabs :
    /\ create[t].route = "create"
    /\ create[t].error = UniqueViolation
    /\ create[t].submitting = {}
    /\ HasProfile(user[t])

(* an id no stored profile has *)
AbsentId ==
  CHOOSE id \in ViewTargets : \A store \in InitialStores : \A p \in store : p.id # id

NotFoundScreen(v) == ~v.loading /\ v.profile = {}

(* what the page can become when the lookup call returns, were the         *)
(* looked-up id the given one                                              *)
LookupOutcomes(t, call, id) ==
  {AfterFetchProfile(view[t], call, res) :
     res \in Outcomes(SelectPublicProfileById(call.uid, id), Failure)}

(* C3: a lookup by id of a private profile by anyone but its owner can end  *)
(* in exactly the page states a lookup of an absent id can end in: the      *)
(* lookup sets no profile, and a page that held none shows 'not found'.     *)
C3_PrivateLooksAbsent ==
  \A t \in ViewTabs : \A call \in view[t].fetching : \A p \in profiles :
    (/\ view[t].route = "view"
     /\ call.q = "viewed"
     /\ p.id = view[t].id
     /\ ~p.is_public
     /\ p.user_id # call.uid)
    => (/\ \A q \in profiles : q.id # AbsentId
        /\ LookupOutcomes(t, call, view[t].id) = LookupOutcomes(t, call, AbsentId)
        /\ \A v \in LookupOutcomes(t, call, view[t].id) :
             /\ v.profile = view[t].profile
             /\ view[t].profile = {} => NotFoundScreen(v))

(* a non-owner's lookup of a private profile has returned 'no row' *)
C3_Witness ==
  \E t \in ViewTabs : \E p \in profiles :
    /\ view[t].route = "view"
    /\ p.id = view[t].id /\ ~p.is_public /\ p.user_id # user[t]
    /\ view[t].authChanges = 0
    /\ view[t].error = PGRST116
    /\ NotFoundScreen(view[t])

(* C4 as claimed: the owner who opens the by-id page of their own private   *)
(* profile gets the profile.                                               *)
C4_OwnerGetsPrivateProfile ==
  \A t \in ViewTabs : \A p \in profiles :
    (/\ view[t].route = "view"
     /\ p.id = view[t].id /\ ~p.is_public /\ p.user_id = user[t]
     /\ view[t].authChanges = 0
     /\ faults = MaxFaults
     /\ \A call \in view[t].fetching : call.q # "viewed")
    => view[t].profile = {p}

(* C4 amended: the by-id lookup returns the profile exactly when it is      *)
(* public, whoever asks; for a private profile it answers 'no row' to the   *)
(* owner as well and sets no profile.                                      *)
C4_PublicOnlyById ==
  \A t \in ViewTabs : \A call \in view[t].fetching :
    (view[t].route = "view" /\ call.q = "viewed")
    => LET res == SelectPublicProfileById(call.uid, view[t].id)
           after == AfterFetchProfile(view[t], call, res) IN
       /\ res.data = {p \in profiles : p.id = view[t].id /\ p.is_public}
       /\ res.data = {} => res.error = PGRST116 /\ after.profile = view[t].profile
       /\ res.data # {} => res.error = NoError /\ after.profile = res.data

(* the owner's lookup of their own private profile has returned 'no row' *)
C4_Witness ==
  \E t \in ViewTabs : \E p \in profiles :
    /\ view[t].route = "view"
    /\ p.id = view[t].id /\ ~p.is_public /\ p.user_id = user[t]
    /\ view[t].authChanges = 0
    /\ view[t].error = PGRST116
    /\ NotFoundScreen(view[t])

(* C5: a request is stored with status pending when it is created, and its  *)
(* status changes only in a step where an accept/decline update returns to  *)
(* a dashboard whose principal is the request's to_user_id; calls of the    *)
(* handler by the sender change nothing.                                    *)
C5_StatusChangedOnlyByReceiver ==
  [][/\ \A r2 \in requests' :
          (\A r \in requests : r.id # r2.id) => r2.status = "pending"
     /\ \A r \in requests : \A r2 \in requests' :
          (r2.id = r.id /\ r2.status # r.status)
          => \E t \in DashTabs : \E call \in dash[t].updating :
               /\ user[t] = r.to_user_id
               /\ call.id = r.id
               /\ call.action = r2.status
               /\ dash'[t].updating = dash[t].updating \ {call}]_vars

(* an update issued from the sender's dashboard has returned without error  *)
(* and every request is still pending                                       *)
C5_Witness ==
  /\ requests # {}
  /\ \A r \in requests : r.status = "pending"
  /\ \E t \in DashTabs :
       /\ dash[t].route = "dashboard"
       /\ \A r \in requests : user[t] = r.from_user_id /\ user[t] # r.to_user_id
       /\ ~dash[t].loading
       /\ dash[t].updating = {}
       /\ dash[t].error = NoError
       /\ "profile" \in dash[t].fetching

(* C6 as claimed: in behaviours driven by Accept/Decline clicks on rows     *)
(* whose fetched status is pending, with two dashboards of the receiver, a  *)
(* request whose stored status is accepted, declined or completed keeps it. *)
C6_DecidedStatusNeverChanges ==
  [][\A r \in requests : \A r2 \in requests' :
       (r2.id = r.id /\ r.status # "pending") => r2.status = r.status]_vars

(* C7: an accept (decline) update of the receiver that reaches the store    *)
(* while the request's stored status is declined (accepted) sets no error,  *)
(* leaves the stored status accepted (declined) and starts the refresh.     *)
C7_DecisionOverwritesDecision ==
  [][\A t \in DashTabs : \A call \in dash[t].updating : \A r \in requests :
       (/\ dash'[t].updating = dash[t].updating \ {call}
        /\ faults' = faults
        /\ r.id = call.id
        /\ r.to_user_id = user[t]
        /\ r.status \in Decisions
        /\ r.status # call.action)
       => (/\ requests' = (requests \ {r}) \cup {[r EXCEPT !.status = call.action]}
           /\ dash'[t].error = dash[t].error
           /\ Refresh(dash[t]) \in dash'[t].fetching)]_vars

(* the stored status is accepted while a dashboard that refreshed earlier   *)
(* still lists the request as declined, and no update has failed            *)
C7_Witness ==
  \E t \in DashTabs : \E r \in requests : \E listed \in dash[t].incomingRequests :
    /\ listed.id = r.id
    /\ listed.status = "declined"
    /\ r.status = "accepted"
    /\ \A d \in DashTabs : dash[d].error = NoError

(* C8: every stored request has one of the four statuses, and none has      *)
(* status completed, whatever was sent, accepted, declined, created or      *)
(* saved.                                                                   *)
C8_StatusNeverCompleted ==
  \A r \in requests : r.status \in Statuses /\ r.status # "completed"

(* one request was declined and another sent after it *)
C8_Witness ==
  \E r, q \in requests : r.status = "declined" /\ q.status = "pending"


Blank(v, message) ==
  Len(trim(message)) = 0 \/ v.skill_offered = "" \/ v.skill_wanted = ""

(* C9: a click on Send with an empty or whitespace-only message, or with a  *)
(* skill not chosen, issues no insert, changes nothing stored and sets the  *)
(* error message 'Please fill in all fields'.                               *)
C9_BlankRequestRejected ==
  [][\A t \in ViewTabs : \A message \in Messages :
       (/\ SendEnabled(t, message)
        /\ Blank(view[t], message)
        /\ view'[t] = handleSendRequestBody(view[t], user[t], message)
        /\ view'[t] # view[t])
       => (/\ requests' = requests
           /\ profiles' = profiles
           /\ view'[t].inserting = {}
           /\ ~view'[t].sending
           /\ view'[t].route = "view"
           /\ view'[t].error = FillInAllFields)]_vars

(* the validation has refused a click *)
C9_Witness ==
  \E t \in ViewTabs :
    /\ view[t].route = "view"
    /\ view[t].error = FillInAllFields
    /\ view[t].inserting = {}

(* C10: both parties of every stored request have a profile; a send by a    *)
(* principal without a profile inserts nothing.                             *)
C10_RequestPartiesHaveProfiles ==
  \A r \in requests : HasProfile(r.from_user_id) /\ HasProfile(r.to_user_id)

(* the insert of a principal without a profile was refused *)
C10_Witness ==
  \E t \in ViewTabs :
    /\ view[t].route = "view"
    /\ user[t] # NoUser
    /\ ~HasProfile(user[t])
    /\ view[t].error = ForeignKeyViolation
    /\ \A r \in requests : r.from_user_id # user[t]

(* C11: no stored request has from_user_id = to_user_id: the dialog is       *)
(* rendered only to a principal who is not the owner of the viewed profile,  *)
(* and nothing else compares the two.                                        *)
C11_NoSelfRequest ==
  \A r \in requests : r.from_user_id # r.to_user_id

(* the owner has their own public profile open on the by-id page, fully      *)
(* loaded, and no dialog is rendered                                         *)
C11_Witness ==
  \E t \in ViewTabs : \E p \in view[t].profile :
    /\ view[t].route = "view"
    /\ ~view[t].loading
    /\ p.user_id = user[t]
    /\ view[t].currentUserProfile # {}
    /\ view[t].fetching = {}
    /\ ~DialogShown(t)

(* the skills_offered stored for a principal *)
StoredSkillsOffered(u) ==
  UNION {Range(p.skills_offered) : p \in {q \in profiles : q.user_id = u}}

(* C12 as claimed: whenever a request is inserted, its skill_wanted is one   *)
(* of the receiver's stored skills_offered, also when the receiver saved the *)
(* removal of that skill after the sender loaded the receiver's profile.    *)
C12_SkillWantedIsOffered ==
  [][\A r \in requests' \ requests :
       r.skill_wanted \in StoredSkillsOffered(r.to_user_id)]_vars

(* C13 as claimed: whenever a request is inserted, its skill_offered is one  *)
(* of the sender's stored skills_offered, also when the sender removed that  *)
(* skill in another session after the by-id page fetched the sender's own    *)
(* profile.                                                                  *)
C13_SkillOfferedIsOwn ==
  [][\A r \in requests' \ requests :
       r.skill_offered \in StoredSkillsOffered(r.from_user_id)]_vars

(* C14: with two dashboards of the receiver open, every accept/decline       *)
(* update that reaches the store sets the stored status to the decision it   *)
(* carries, whatever the status was and whatever the other dashboard has in  *)
(* flight, and sets no error: the update applied last decides the status.    *)
C14_LastWriteWins ==
  [][\A t \in DashTabs : \A call \in dash[t].updating : \A r \in requests :
       (/\ dash'[t].updating = dash[t].updating \ {call}
        /\ faults' = faults
        /\ r.id = call.id
        /\ r.to_user_id = user[t]
        /\ \E d \in DashTabs \ {t} : user[d] = user[t] /\ dash[d].route = "dashboard")
       => (/\ requests' = (requests \ {r}) \cup {[r EXCEPT !.status = call.action]}
           /\ dash'[t].error = dash[t].error
           /\ \A d \in DashTabs \ {t} : dash'[d] = dash[d])]_vars

(* one dashboard's decline was applied and its refresh has started, while    *)
(* the other dashboard, which never applied an update, has an accept of the  *)
(* same request in flight                                                    *)
C14_Witness ==
  \E t, d \in DashTabs : \E call \in dash[t].updating : \E r \in requests :
    /\ t # d
    /\ call.id = r.id /\ call.action = "accepted" /\ r.status = "declined"
    /\ dash[t].fetching = {} /\ dash[t].error = NoError
    /\ \E listed \in dash[t].incomingRequests : listed.id = r.id /\ listed.status = "pending"
    /\ dash[d].updating = {} /\ dash[d].error = NoError
    /\ "profile" \in dash[d].fetching /\ ~dash[d].loading

(* C15: a stored profile changes only in a step where a save of its owner    *)
(* returns; every other operation of every principal leaves it as it is, and *)
(* no profile is ever removed.                                               *)
C15_OnlyOwnerUpdatesProfile ==
  [][\A p \in profiles :
       p \notin profiles'
       => (/\ \E q \in profiles' : q.id = p.id /\ q.user_id = p.user_id
           /\ \E t \in OwnTabs :
                /\ user[t] = p.user_id
                /\ own[t].updating # {}
                /\ own'[t].updating = {}
           /\ \A o \in profiles : o.user_id # p.user_id => o \in profiles')]_vars

(* u1 has saved a changed profile and u2's profile is as it was stored *)
C15_Witness ==
  /\ \E p \in profiles : p.user_id = "u1" /\ p # StoredProfile(1, "u1", TRUE)
  /\ StoredProfile(2, "u2", TRUE) \in profiles
  /\ \E t \in OwnTabs : user[t] = "u1" /\ own[t].updating = {} /\ own[t].error = NoError

(* the write calls of a tab that are in flight *)
WritesInFlight(t) ==
  IF t \in CreateTabs THEN Cardinality(create[t].submitting)
  ELSE IF t \in ViewTabs THEN Cardinality(view[t].inserting)
  ELSE IF t \in DashTabs THEN Cardinality(dash[t].updating)
  ELSE Cardinality(own[t].updating)

(* C16 as claimed: no session ever has two write calls in flight together;   *)
(* a second Accept or Decline cannot be clicked while an earlier update of   *)
(* that dashboard is pending.                                                *)
C16_OneWriteInFlight ==
  \A t \in Tabs : WritesInFlight(t) <= 1

(* the page state of a tab *)
Page(t) ==
  IF t \in CreateTabs THEN create[t]
  ELSE IF t \in ViewTabs THEN view[t]
  ELSE IF t \in DashTabs THEN dash[t]
  ELSE own[t]

(* C17 as claimed: every data-store call that fails leaves the page it       *)
(* returns to with a non-empty error message.                                *)
C17_FailureSetsError ==
  [][faults' < faults
       => \A t \in Tabs : Page(t)' # Page(t) => Page(t)'.error # NoError]_vars

(* C18: when a lookup of the principal's own profile by user_id returns "no  *)
(* row", the error message is left alone, the create page shows its form and *)
(* the dashboard and the own-profile page go to profile creation; when it    *)
(* fails otherwise, the error message is set and the page stays where it is. *)
C18_NoRowIsNotAnError ==
  [][/\ \A t \in CreateTabs :
          (create[t].checking /\ ~create'[t].checking)
          => /\ (faults' = faults /\ ~HasProfile(user[t]))
                  => (/\ create'[t].error = create[t].error
                      /\ create'[t].route = "create"
                      /\ ~create'[t].loading)
             /\ faults' < faults
                  => (create'[t].error # NoError /\ create'[t].route = "create")
     /\ \A t \in DashTabs :
          ("profile" \in dash[t].fetching /\ "profile" \notin dash'[t].fetching)
          => /\ (faults' = faults /\ ~HasProfile(user[t]))
                  => (dash'[t].error = dash[t].error /\ dash'[t].route = "create")
             /\ faults' < faults
                  => (dash'[t].error # NoError /\ dash'[t].route = "dashboard")
     /\ \A t \in OwnTabs :
          (own'[t].fetching # own[t].fetching /\ own'[t].fetching \subseteq own[t].fetching)
          => /\ (faults' = faults /\ ~HasProfile(user[t]))
                  => (own'[t].error = own[t].error /\ own'[t].route = "create")
             /\ faults' < faults
                  => (own'[t].error # NoError /\ own'[t].route = "profile")]_vars

(* the own-profile page of a principal without a profile went to profile     *)
(* creation with no error message                                            *)
C18_Witness ==
  \E t \in OwnTabs :
    /\ ~HasProfile(user[t])
    /\ own[t].route = "create"
    /\ own[t].error = NoError
    /\ own[t].fetching = {}

SameLetter(c, d) == c = d \/ {c, d} = {"a", "A"} \/ {c, d} = {"b", "B"}

ContainsIgnoringCase(text, part) ==
  \E i \in 0..(Len(text) - Len(part)) :
    \A k \in 1..Len(part) : SameLetter(text[i + k], part[k])

EqualIgnoringCase(x, y) ==
  Len(x) = Len(y) /\ \A k \in 1..Len(x) : SameLetter(x[k], y[k])

(* the three predicates of the browse filter, all together *)
Satisfies(p) ==
  /\ \/ browse.searchTerm = <<>>
     \/ ContainsIgnoringCase(p.name, browse.searchTerm)
     \/ \E skill \in Range(p.skills_offered) \cup Range(p.skills_wanted) :
          ContainsIgnoringCase(skill, browse.searchTerm)
  /\ \/ browse.locationFilter = <<>>
     \/ \E location \in p.location : ContainsIgnoringCase(location, browse.locationFilter)
  /\ \/ browse.availabilityFilter = All
     \/ EqualIgnoringCase(p.availability, browse.availabilityFilter)

(* C19: the browse result holds exactly the fetched profiles that satisfy    *)
(* the search term, the location filter and the availability filter          *)
(* together, each once, whatever the sort choice.                            *)
C19_BrowseFilter ==
  browse.route = "browse"
  => /\ Range(browse.filteredProfiles) = {p \in Range(browse.profiles) : Satisfies(p)}
     /\ Len(browse.filteredProfiles) = Cardinality(Range(browse.filteredProfiles))

(* all three filters are set and one of two fetched profiles passes them *)
C19_Witness ==
  /\ Len(browse.profiles) = 2
  /\ Len(browse.filteredProfiles) = 1
  /\ browse.searchTerm # <<>>
  /\ browse.locationFilter # <<>>
  /\ browse.availabilityFilter # All

Position(p) == CHOOSE i \in 1..Len(browse.profiles) : browse.profiles[i] = p

(* x comes before y alphabetically, case ignored *)
NameBefore(x, y) ==
  \E k \in 1..Len(y) :
    /\ Len(x) >= k - 1
    /\ \A i \in 1..(k - 1) : SameLetter(x[i], y[i])
    /\ \/ Len(x) = k - 1
       \/ SameLetter(x[k], "a") /\ SameLetter(y[k], "b")

InOrder(sortBy, a, b) ==
  /\ sortBy = "newest" => a.created_at >= b.created_at
  /\ sortBy = "oldest" => a.created_at <= b.created_at
  /\ sortBy = "name" => ~NameBefore(b.name, a.name)
  /\ sortBy = "skills" => Len(a.skills_offered) >= Len(b.skills_offered)

EqualKeys(sortBy, a, b) ==
  /\ sortBy \in {"newest", "oldest"} => a.created_at = b.created_at
  /\ sortBy = "name" => a.name = b.name
  /\ sortBy = "skills" => Len(a.skills_offered) = Len(b.skills_offered)

(* C20: the browse result is ordered by the key of the sort choice (newest:  *)
(* created_at descending, oldest: created_at ascending, name: name           *)
(* ascending, skills: number of skills_offered descending), and profiles     *)
(* with equal keys are in the order of the fetched snapshot.                 *)
C20_BrowseSort ==
  browse.route = "browse"
  => \A i, j \in 1..Len(browse.filteredProfiles) :
       i < j
       => LET a == browse.filteredProfiles[i]
              b == browse.filteredProfiles[j] IN
          /\ InOrder(browse.sortBy, a, b)
          /\ EqualKeys(browse.sortBy, a, b) => Position(a) < Position(b)

(* sorting by name has put the second fetched profile first *)
C20_Witness ==
  /\ browse.sortBy = "name"
  /\ Len(browse.profiles) = 2
  /\ Len(browse.filteredProfiles) = 2
  /\ browse.filteredProfiles[1] = browse.profiles[2]

StoredIncoming(P) == {r \in requests : r.to_user_id = P}

StoredSent(P) == {r \in requests : r.from_user_id = P}

Accepted(rows) == {r \in rows : r.status = "accepted"}

(* C21: a query of a dashboard load that succeeds gives the page exactly   *)
(* the stored requests to the principal (incoming) or from the principal   *)
(* (sent) as of that query, and the displayed counts are those of the      *)
(* lists: pending = incoming requests that are pending, total = incoming   *)
(* plus sent, accepted = accepted requests among sent and incoming.        *)
C21_DashboardListsAndCounts ==
  [][\A t \in DashTabs :
       LET P == user[t]
           d == dash[t]
           e == dash'[t] IN
       /\ fetchIncoming(t) /\ faults' = faults
          => /\ e.incomingRequests = StoredIncoming(P)
             /\ pendingCount(e)
                  = Cardinality({r \in StoredIncoming(P) : r.status = "pending"})
       /\ fetchSent(t) /\ faults' = faults
          => /\ e.sentRequests = StoredSent(P)
             /\ e.incomingRequests = d.incomingRequests
             /\ totalRequests(e)
                  = Cardinality(d.incomingRequests) + Cardinality(StoredSent(P))
       /\ fetchDashboardSent(t) /\ faults' = faults
          => e.sentData = StoredSent(P)
       /\ fetchDashboardReceived(t) /\ faults' = faults
          => /\ e.incomingRequests = StoredIncoming(P)
             /\ e.sentRequests = d.sentData
             /\ pendingCount(e)
                  = Cardinality({r \in StoredIncoming(P) : r.status = "pending"})
             /\ activeExchanges(e)
                  = Cardinality(Accepted(d.sentData \cup StoredIncoming(P)))
  ]_vars

(* a loaded dashboard shows one incoming and one sent request, both        *)
(* accepted                                                                *)
C21_Witness ==
  \E t \in DashTabs :
    /\ dash[t].impl = "fetchDashboardData"
    /\ ~dash[t].loading
    /\ dash[t].fetching = {}
    /\ dash[t].incomingRequests = StoredIncoming(user[t])
    /\ dash[t].sentRequests = StoredSent(user[t])
    /\ Cardinality(dash[t].incomingRequests) = 1
    /\ Cardinality(dash[t].sentRequests) = 1
    /\ activeExchanges(dash[t]) = 2

SkillFields == {"skills_offered", "skills_wanted"}

NoDuplicates(list) == \A i, j \in 1..Len(list) : list[i] = list[j] => i = j

(* the labels are words: not empty, no space before or after *)
Trimmed(list) == \A label \in Range(list) : label \in FormWords

Before(list, a, b) == \E i, j \in 1..Len(list) : i < j /\ list[i] = a /\ list[j] = b

(* new keeps the labels of old in their order and has any added label last *)
OrderKept(old, new) ==
  /\ \A a, b \in Range(old) \cap Range(new) : Before(old, a, b) => Before(new, a, b)
  /\ \A a \in Range(new) \ Range(old) : new[Len(new)] = a

(* C22: on the create form and on the edit form every skill list, and      *)
(* every stored skill list, is free of duplicates and holds trimmed,       *)
(* non-empty labels only, and a step of addSkill or removeSkill keeps the   *)
(* remaining labels in their order and puts an added label last.           *)
C22_SkillListsWellFormed ==
  [][/\ \A t \in CreateTabs, field \in SkillFields :
          /\ NoDuplicates(create'[t][field])
          /\ Trimmed(create'[t][field])
          /\ OrderKept(create[t][field], create'[t][field])
     /\ \A t \in OwnTabs, field \in SkillFields :
          /\ NoDuplicates(own'[t].formData[field])
          /\ Trimmed(own'[t].formData[field])
          /\ own'[t].fetching = own[t].fetching
             => OrderKept(own[t].formData[field], own'[t].formData[field])
     /\ \A p \in profiles', field \in SkillFields :
          NoDuplicates(p[field]) /\ Trimmed(p[field])
  ]_vars

(* a skill was added, the first one removed and added again, and the list  *)
(* saved                                                                   *)
C22_Witness ==
  /\ \E p \in profiles : p.skills_offered = <<"Vue", "React">>
  /\ \E t \in OwnTabs : own[t].formData.skills_offered = <<"Vue", "React">>

(* C23: a stored request whose status is not pending is never pending      *)
(* again after any step of the pages.                                      *)
C23_NeverPendingAgain ==
  [][\A r \in requests :
       r.status # "pending"
       => \A q \in requests' : q.id = r.id => q.status # "pending"]_vars

(* a request is decided while another update of it is still in flight *)
C23_Witness ==
  \E r \in requests, t \in DashTabs :
    /\ r.status # "pending"
    /\ \E call \in dash[t].updating : call.id = r.id

(* C24: the return of an accept or decline leaves every profile alone,     *)
(* adds and removes no request, changes no request but the one it names,   *)
(* and of that one nothing but the status; a failed update changes nothing  *)
(* in the store.                                                           *)
C24_DecisionChangesStatusOnly ==
  [][\A t \in DashTabs :
       handleRequestActionReturn(t)
       => /\ profiles' = profiles
          /\ Cardinality(requests') = Cardinality(requests)
          /\ faults' # faults => requests' = requests
          /\ \E call \in dash[t].updating \ dash'[t].updating :
               \A r \in requests :
                 IF r.id = call.id
                   THEN \E q \in requests' :
                          /\ [q EXCEPT !.status = r.status] = r
                          /\ q.status \in {r.status, call.action}
                   ELSE r \in requests']_vars

(* updateRequestStatus decided a request and its refresh is under way *)
C24_Witness ==
  /\ \E r \in requests : r.status \in Decisions
  /\ \E t \in DashTabs :
       /\ dash[t].impl = "fetchDashboardData"
       /\ ~dash[t].loading
       /\ "dashboard" \in dash[t].fetching

EditableFields ==
  {"name", "location", "bio", "skills_offered", "skills_wanted", "availability",
   "is_public"}

(* the column value of a form value: an empty location or bio is null *)
SavedValue(field, value) ==
  IF field \in {"location", "bio"} /\ value = "" THEN Null ELSE value

(* C25: a save that reaches the store leaves the seven editable fields of   *)
(* the principal's profile equal to the values of the saving session's      *)
(* form (an empty location or bio stored as null), whatever another         *)
(* session saved before.                                                    *)
C25_SaveOverwritesAllFields ==
  [][\A t \in OwnTabs :
       /\ handleSave(t)
          => \A call \in own'[t].updating : \A field \in EditableFields :
               call.patch[field] = SavedValue(field, own[t].formData[field])
       /\ handleSaveReturn(t) /\ faults' = faults
          => \A call \in own[t].updating : \A p \in profiles' :
               p.user_id = call.user_id
               => \A field \in EditableFields : p[field] = call.patch[field]]_vars

(* the first session saved is_public = FALSE and shows it, and the second   *)
(* session, which changed the name only, has stored the name with the       *)
(* is_public it had loaded                                                  *)
C25_Witness ==
  \E t, d \in OwnTabs :
    /\ t # d
    /\ \E shown \in own[t].profile : ~shown.is_public /\ shown.name = "Alice"
    /\ ~own[t].editing /\ own[t].fetching = {} /\ own[t].updating = {}
    /\ own[d].formData.name = "Bob" /\ own[d].formData.is_public
    /\ \E p \in profiles : p.user_id = user[d] /\ p.name = "Bob" /\ p.is_public

(* C26 as claimed: Cancel discards unsaved edits, so at every click on Edit *)
(* the form holds the stored values of the principal's profile, and a Save  *)
(* right after it stores what was stored before.                            *)
C26_CancelDiscardsEdits ==
  [][\A t \in OwnTabs :
       setEditing(t, TRUE)
       => \A p \in profiles :
            p.user_id = user[t] => own'[t].formData = FormOf(p)]_vars

(* C27 as claimed: every public profile the browse page fetched is in the  *)
(* result of the filter under some availability option other than "all".   *)
C27_EveryAvailabilityHasAnOption ==
  \A p \in Range(browse.profiles) :
    \E option \in AvailabilityOptions \ {All} :
      p \in Range(filter(browse.profiles, <<>>, <<>>, option))

(* C28 as claimed: for every fetched snapshot and every search term, also   *)
(* one made of whitespace only, the home page search selects the profiles   *)
(* the browse filter selects with that term, no location filter and         *)
(* availability "all".                                                      *)
C28_HomeSearchIsBrowseFilter ==
  browse.route = "home"
  => Range(browse.filteredProfiles)
       = Range(filter(browse.profiles, browse.searchTerm, <<>>, All))

----------------------------------------------------------------------------
(* In-progress flags of the pages of a signed-in visitor.                   *)

CreateLoading(t) == create[t].route = "create" /\ user[t] # NoUser /\ create[t].loading

DashLoading(t) == dash[t].route = "dashboard" /\ user[t] # NoUser /\ dash[t].loading

OwnLoading(t) == own[t].route = "profile" /\ user[t] # NoUser /\ own[t].loading

OwnSaving(t) == own[t].route = "profile" /\ user[t] # NoUser /\ own[t].saving

ViewLoading(t) == view[t].route = "view" /\ user[t] # NoUser /\ view[t].loading

ViewSending(t) == view[t].route = "view" /\ user[t] # NoUser /\ view[t].sending

(* C29: for a signed-in visitor, with every data-store call eventually      *)
(* returning, each page load eventually clears loading and each submit      *)
(* eventually clears loading, saving or sending, whether the call           *)
(* succeeded, failed or found no row: a flag that is set is eventually      *)
(* cleared, or the page has been left by a redirect.                        *)
C29_FlagsEventuallyCleared ==
  /\ \A t \in CreateTabs : CreateLoading(t) ~> ~CreateLoading(t)
  /\ \A t \in DashTabs : DashLoading(t) ~> ~DashLoading(t)
  /\ \A t \in OwnTabs : OwnLoading(t) ~> ~OwnLoading(t)
  /\ \A t \in OwnTabs : OwnSaving(t) ~> ~OwnSaving(t)
  /\ \A t \in ViewTabs : ViewLoading(t) ~> ~ViewLoading(t)
  /\ \A t \in ViewTabs : ViewSending(t) ~> ~ViewSending(t)

(* a load or submit whose call failed has returned: the page of a          *)
(* signed-in visitor shows the error with its flags cleared                 *)
C29_Witness ==
  \/ \E t \in CreateTabs :
        /\ create[t].route = "create" /\ user[t] # NoUser
        /\ ~create[t].loading /\ create[t].error = FetchFailed
  \/ \E t \in OwnTabs :
        /\ own[t].route = "profile" /\ user[t] # NoUser
        /\ ~own[t].loading /\ ~own[t].saving /\ own[t].error = FetchFailed
  \/ \E t \in ViewTabs :
        /\ view[t].route = "view" /\ user[t] # NoUser
        /\ ~view[t].loading /\ ~view[t].sending /\ view[t].error = FetchFailed

----------------------------------------------------------------------------
(* the columns of a profile no form of the own-profile page holds *)
IdentityFields == {"id", "user_id", "email", "created_at"}

(* C30: the return of a profile save leaves id, user_id, email and          *)
(* created_at of every stored profile as they were, adds and removes no     *)
(* profile, and changes no skill request; when the save failed, the stored  *)
(* profiles are unchanged, the page is still in edit mode if it was, the    *)
(* error message is set and saving is cleared.                              *)
C30_SaveKeepsIdentityAndRequests ==
  [][\A t \in OwnTabs :
       handleSaveReturn(t)
       => /\ requests' = requests
          /\ {[field \in IdentityFields |-> p[field]] : p \in profiles'}
               = {[field \in IdentityFields |-> p[field]] : p \in profiles}
          /\ Cardinality(profiles') = Cardinality(profiles)
          /\ faults' < faults
             => /\ profiles' = profiles
                /\ own'[t].editing = own[t].editing
                /\ own'[t].error # NoError
                /\ ~own'[t].saving]_vars

(* a save of a changed name failed with a request stored: the page is in    *)
(* edit mode with the error, the form still holds the change and the page   *)
(* still shows the stored profile                                           *)
C30_Witness ==
  \E t \in OwnTabs :
    /\ own[t].route = "profile" /\ own[t].editing /\ ~own[t].saving
    /\ own[t].error = FetchFailed /\ faults = 0
    /\ own[t].updating = {} /\ own[t].fetching = {}
    /\ requests # {}
    /\ \E p \in profiles :
         /\ p.user_id = user[t] /\ own[t].profile = {p}
         /\ own[t].formData.name # p.name
====
